---- MODULE Spec2Model ----
(***************************************************************************)
(* Verification model of mmlfm-go: the tick-driven sequencer               *)
(* (internal/sequencer), the token-level event emission of the MML parser  *)
(* (internal/mml) and the Player facade's lifecycle (player.go).           *)
(***************************************************************************)
EXTENDS Integers, Sequences, FiniteSets, TLC

(***************************************************************************)
(* Bounds of the model and program constants.                              *)
(***************************************************************************)
Resolution == 4          \* ticks per whole note (ParserConfig.Resolution, scaled down)
SampleRate == 1          \* frames per second handed to NewWithOptions
TempoUnit == 100         \* U of #TMODE{unit=U}
MaxTokens == 3           \* longest track source, in tokens
MaxControlTokens == 4    \* longest track source of the control scores, in tokens
MaxBody == 1             \* plain tokens in one segment of a loop body
MaxRepeat == 3           \* largest repeat count written behind a loop
MaxItems == 4            \* longest source of the preprocessor, in items
MaxTick == 6             \* Process is not called once tickInt has passed this tick
MaxPasses == 2           \* whole-score passes that are followed
MaxExtraFrames == 2      \* frames rendered after PlaybackEnded
MaxTailOpt == 2          \* largest Options.ReleaseTailFrames
MaxPlays == 2            \* Play calls that are followed
MaxWatch == 1            \* Watch calls that are followed
MaxLoops == 9            \* LoopCompleted events the looping playbacks raise
ReleaseFrames == 1       \* frames a released voice keeps sounding
VolumeUnit == 2          \* Player.volume 1.0
MaxNotes == 2            \* NoteOn calls of one playback that are followed
MaxModules == 1          \* modules other than 0 that a score selects
MaxNesNotes == 5         \* NoteOn calls on the NES-APU engine that are followed
NesMaxVol == 2           \* largest note volume, in release steps

DefaultBPM == 120        \* DefaultParserConfig().DefaultBPM
DefaultVolume == 16
DefaultFineVol == 127
DefaultExpression == 128
DefaultLValue == 4
DefaultOctave == 5
FallbackBPM == 120       \* applyTMODETempo for rawTempo <= 0
MaxMacroDepth == 32      \* expandMacroByName, expandMacroText: depth > 32
EventChCap == 8          \* make(chan PlaybackEvent, 8) in Watch
FMMasterGain == 45          \* fm DefaultParams().MasterGain, in hundredths
ChiptuneMasterGain == 28    \* chiptune DefaultParams().MasterGain
NESMasterGain == 32         \* nesapu DefaultParams().MasterGain
WavetableMasterGain == 42   \* wavetable DefaultParams().MasterGain
Polyphony == 32             \* DefaultParams().Polyphony
LocalIDMask == 65535        \* encodeVoiceID: localID & 0xFFFF
NoiseCutoff == 84           \* nesapu DefaultParams().NoiseCutoff
TriangleBelow == 48         \* assignSlot: note < 48
NesFrameRate == 240         \* defaultFrameRate

VARIABLES
    \* ---- preprocessor (preprocessInput) ----
    preprocessor,       \* preprocessStream: src, position, out and the preprocessorState
    \* ---- parser (Parser.Parse) ----
    source,             \* the track sources handed to Parse, as token sequences
    expanded,           \* per track: the source after expandLoops
    \* ---- sequencer (internal/sequencer) ----
    score,              \* the Score handed to NewWithOptions
    loopWholeScore,     \* Options.LoopWholeScore
    ticksPerSamp,       \* numerator of ticks_per_sample over TickDen
    initialTicksPerSamp,
    tickFrac,           \* numerator of tickFrac over TickDen
    tickInt,
    trackState,         \* per track: index, loopIndex, loopTick, endTick, loopCycle
    trackRuntime,       \* per track runtimeState
    noteOffs,           \* the note-off queue
    pendingReset,
    playbackEndedFired,
    commandExhausted,
    releaseTailFrames,
    loopPending,
    loopTailCountdown,
    \* ---- voice engine behind the VoiceEngine interface ----
    voices,             \* id -> frames left in release, or Held
    nextID,
    \* ---- observation of the sequencer's outputs ----
    calls,              \* engine calls in order: NoteOn / NoteOff
    dispatched,         \* applyEvent calls in order
    emitted,            \* kinds passed to onEvent, in order
    tailInit,           \* releaseTailFrames as constructed
    zeroFrames,         \* zero-voice frames rendered since command_exhausted
    passNo,             \* whole-score resets so far
    extraFrames,        \* frames rendered after PlaybackEnded
    \* ---- Player facade (player.go) ----
    mu,                 \* holder of Player.mu, "" when free
    eventChMu,          \* holder of Player.eventChMu, "" when free
    audio,              \* Player.audio: 0 is nil, k the backend made by Play call k
    done,               \* Player.done: 0 is nil, k the channel made by Play call k
    doneClosed,         \* per done channel: close() calls so far
    eventCh,            \* Player.eventCh: 0 is nil, w the channel made by Watch call w
    chBuf,              \* per Watch channel: the buffered events
    chClosed,           \* per Watch channel: close() calls so far
    backend,            \* per Play call: state of its audio backend
    finished,           \* per Play call: eventWrapper.finished
    loops,              \* LoopCompleted events raised by the sequencers so far
    plays,              \* Play calls so far
    watches,            \* Watch calls so far
    ctl,                \* the control thread: position and locals
    realtime,           \* per Play call: the realtime thread inside StreamReader.Read
    readerMu,           \* per Play call: StreamReader.mu is held
    waiter,             \* the thread calling Wait: position and locals
    \* ---- observation of the Player ----
    offers,             \* per Play call: PlaybackEnded passed to sendEvent
    playFailed,         \* the last Play call returned an error
    dropped,            \* reasons for which sendEvent dropped an event
    \* ---- Player engine fields and the engines of the playback ----
    mode,               \* Player.mode
    engine,             \* Player.engine: its place in engines
    baseGain,           \* Player.baseGain, in hundredths
    playerVolume,       \* Player.volume, in VolumeUnit-ths
    engines,            \* the engine instances: kind, masterGain, nextID, voices
    multi,              \* the MultiEngine handed to the sequencer, or Nil
    playing,            \* Play has built the engines of a playback
    held,               \* the NoteOn calls whose voice the sequencer still holds: track
                        \* module, sub-engine, local id, returned id
    notes,              \* NoteOn calls of this playback
    lastOff,            \* the last NoteOff: the NoteOn it ends, sub-engine and local id reached
    frameOut,           \* the last RenderFrame's left sample
    \* ---- NES-APU engine (internal/nesapu) ----
    nes                 \* slots, activeByID, nextID, assignCounter, frame counter

sequencerVars == <<source, expanded, score, loopWholeScore, ticksPerSamp, initialTicksPerSamp, tickFrac,
             tickInt, trackState, trackRuntime, noteOffs, pendingReset,
             playbackEndedFired, commandExhausted, releaseTailFrames, loopPending,
             loopTailCountdown, voices, nextID, calls, dispatched, emitted,
             tailInit, zeroFrames, passNo, extraFrames>>

seqVars == <<preprocessor, sequencerVars>>

playerVars == <<mu, eventChMu, audio, done, doneClosed, eventCh, chBuf, chClosed, backend,
                finished, loops, plays, watches, ctl, realtime, readerMu, waiter,
                offers, playFailed, dropped>>

engineVars == <<mode, engine, baseGain, playerVolume, engines, multi, playing, held, notes,
                lastOff, frameOut, nes>>

vars == <<seqVars, playerVars, engineVars>>

(***************************************************************************)
(* Arithmetic helpers.                                                     *)
(***************************************************************************)
clampInt(v, lo, hi) == IF v < lo THEN lo ELSE IF v > hi THEN hi ELSE v

\* math.Round of the non-negative rational n/d
RoundDiv(n, d) == (2 * n + d) \div (2 * d)

\* Go's truncating integer division
GoDiv(a, b) == IF a >= 0 THEN a \div b ELSE -((-a) \div b)

BitSet(mask, bit) == (mask \div bit) % 2 = 1

TickDen == 240 * SampleRate

Held == -1

(***************************************************************************)
(* Preprocessor.  The source is a sequence of items: a character of body   *)
(* text [k |-> "ch"], or a whole directive statement `#...;`, which is     *)
(* `#REV{octave};`, `#MACRO{dynamic};`, `#MACRO{static};` or a macro        *)
(* assignment `#name=value;`.  A character of text is [c, n]: c is the     *)
(* byte and n counts how often the byte has been swapped between `<` and   *)
(* `>` since it was read from the source.                                  *)
(***************************************************************************)
Ch(c) == [c |-> c, n |-> 0]

Text(item) == [k |-> "ch", ch |-> Ch(item)]

MacroNames == {"A", "B"}

isMacroName(ch) == ch.c \in MacroNames

swapOctaveMarker(ch) ==
    IF ch.c = "<" THEN [c |-> ">", n |-> ch.n + 1]
    ELSE IF ch.c = ">" THEN [c |-> "<", n |-> ch.n + 1]
    ELSE ch

swapOctaveMarkers(src) == [i \in 1..Len(src) |-> swapOctaveMarker(src[i])]

\* make(map[string]string): no macro is defined
noMacros == [name \in MacroNames |-> [ok |-> FALSE, body |-> <<>>]]

\* expandMacroByName with shift = 0, and the scanning loop of expandMacroText
RECURSIVE expandMacroByName(_, _, _)
RECURSIVE expandMacroFrom(_, _, _, _)
expandMacroText(src, st, depth) ==
    IF depth > MaxMacroDepth THEN src ELSE expandMacroFrom(src, 1, st, depth)

expandMacroFrom(src, i, st, depth) ==
    IF i > Len(src) THEN <<>>
    ELSE (IF isMacroName(src[i]) /\ st.macros[src[i].c].ok
          THEN expandMacroByName(src[i].c, st, depth + 1)
          ELSE <<src[i]>>)
         \o expandMacroFrom(src, i + 1, st, depth)

reverseBody(st, body) == IF st.revOctave THEN swapOctaveMarkers(body) ELSE body

expandMacroByName(name, st, depth) ==
    IF depth > MaxMacroDepth \/ ~st.macros[name].ok THEN <<Ch(name)>>
    ELSE reverseBody(st, IF st.macroDynamic
                         THEN expandMacroText(st.macros[name].body, st, depth + 1)
                         ELSE st.macros[name].body)

\* applyMacroDefinition for `name=value`
applyMacroDefinition(item, st) ==
    [st EXCEPT !.macros[item.name] =
        [ok |-> TRUE,
         body |-> IF st.macroDynamic THEN item.value ELSE expandMacroText(item.value, st, 0)]]

parseDirective(item, st) ==
    CASE item.k = "#MACRO" -> [st EXCEPT !.macroDynamic = (item.mode = "dynamic")]
      [] item.k = "#REV" -> [st EXCEPT !.revOctave = TRUE]
      [] item.k = "#DEF" -> applyMacroDefinition(item, st)
      [] OTHER -> st

\* one iteration of the loop of preprocessStream over the item at pp.at
preprocessStep(pp, item) ==
    IF item.k # "ch"
    THEN [parseDirective(item, pp) EXCEPT !.at = pp.at + 1]
    ELSE IF isMacroName(item.ch) /\ pp.macros[item.ch.c].ok
         THEN [pp EXCEPT !.out = pp.out \o expandMacroByName(item.ch.c, pp, 0),
                         !.at = pp.at + 1]
    ELSE IF pp.revOctave /\ item.ch.c \in {"<", ">"}
         THEN [pp EXCEPT !.out = Append(pp.out, swapOctaveMarker(item.ch)), !.at = pp.at + 1]
    ELSE [pp EXCEPT !.out = Append(pp.out, item.ch), !.at = pp.at + 1]

\* preprocessInput: the state preprocessStream starts in
preprocessInput(src) ==
    [src |-> src, at |-> 1, out |-> <<>>, macros |-> noMacros,
     macroDynamic |-> FALSE, revOctave |-> FALSE]

(***************************************************************************)
(* MML parser: event emission of parseTrack over a tokenised track source. *)
(* A token is [k, v]: k is the command and v its numeric argument (the     *)
(* length denominator for notes and rests, 0 meaning "no number given").   *)
(***************************************************************************)
Tok(k, v) == [k |-> k, v |-> v]

\* mml.Event with the fields the sequencer reads
Ev(type, tick) ==
    [type |-> type, tick |-> tick, duration |-> 0, note |-> 0, value |-> 0,
     program |-> 0, pan |-> 0, module |-> 0, channel |-> 0, gateTick |-> 0,
     delay |-> 0, slur |-> "none", command |-> ""]

\* applyTMODETempo followed by int(math.Round(bpm)): the Value of the Tempo event
applyTMODETempo(rawTempo, opts) ==
    IF rawTempo <= 0 THEN FallbackBPM
    ELSE IF opts.tempoMode = "unit"
         THEN RoundDiv(rawTempo, IF opts.tempoUnit <= 0 THEN 100 ELSE opts.tempoUnit)
    ELSE IF opts.tempoMode = "fps"
         THEN RoundDiv((IF opts.tempoFPS <= 0 THEN 60 ELSE opts.tempoFPS) * 60, rawTempo)
    ELSE rawTempo

newState ==
    [tick |-> 0, octave |-> DefaultOctave, defaultLen |-> Resolution \div DefaultLValue,
     volume |-> DefaultVolume, fineVol |-> DefaultFineVol, expression |-> DefaultExpression,
     quantMax |-> 8, quantValue |-> 6, gatePercent |-> 75,
     keyOffTick |-> -1, keyOnDelay |-> 0, slurMode |-> "none",
     transpose |-> 0, detune |-> 0, pan |-> 0, program |-> 0,
     module |-> 0, channel |-> 0, vScaleMode |-> 0, vScaleMax |-> 16, xScaleMode |-> 0]

parseLengthToken(v, st) == IF v > 0 THEN Resolution \div v ELSE st.defaultLen

parseGateDuration(dur, gatePercent) ==
    IF gatePercent <= 0 THEN 0
    ELSE LET gated == (dur * gatePercent) \div 100
         IN IF gated <= 0 /\ dur > 0 THEN 1 ELSE gated

\* linear scaling modes (vScaleMode = 0, xScaleMode = 0, no #VMODE)
scaledVelocity(volume, expression, fineVol, vScaleMax) ==
    LET volMax == IF vScaleMax <= 0 THEN 16 ELSE vScaleMax
        vol == clampInt(volume, 0, 127)
        expr == clampInt(expression, 0, 128)
        fine == clampInt(fineVol, 0, 128)
        volN == IF vol > volMax THEN volMax ELSE vol
    IN clampInt(RoundDiv(volN * expr * fine * 127, volMax * 128 * 128), 0, 127)

normalizePanValue(v) ==
    IF v >= 0 /\ v <= 8 THEN (v - 4) * 16
    ELSE IF v > 64 THEN 64 ELSE IF v < -64 THEN -64 ELSE v

\* parseNote for the c note of the current octave
parseNote(tok, st) ==
    LET dur == parseLengthToken(tok.v, st)
        nn == clampInt(st.octave * 12 + st.transpose + GoDiv(st.detune, 64), 0, 127)
        gated == parseGateDuration(dur, st.gatePercent)
        noteDur == IF st.keyOffTick > 0
                   THEN (IF gated - st.keyOffTick - st.keyOnDelay < 0 THEN 0
                         ELSE gated - st.keyOffTick - st.keyOnDelay)
                   ELSE gated
    IN [evt |-> [Ev("note", st.tick) EXCEPT
                    !.duration = noteDur, !.note = nn,
                    !.value = scaledVelocity(st.volume, st.expression, st.fineVol, st.vScaleMax),
                    !.program = st.program, !.pan = st.pan, !.module = st.module,
                    !.channel = st.channel, !.gateTick = st.keyOffTick,
                    !.delay = st.keyOnDelay, !.slur = st.slurMode],
        stepDur |-> dur]

\* a note that is appended without moving the tick cursor on
emitNoteKeepTick(p, n) ==
    [p EXCEPT !.events = Append(p.events, n.evt),
              !.st.slurMode = "none"]

\* parseTrack, case isNote(ch): n is what parseNote returned
emitNote(p, n) ==
    [p EXCEPT !.events = Append(p.events, n.evt),
              !.st.slurMode = "none",
              !.st.tick = p.st.tick + n.stepDur]

\* one iteration of parseTrack's scanning loop
parseStep(p, tok, opts) ==
    LET st == p.st
        add(e) == [p EXCEPT !.events = Append(p.events, e)]
    IN CASE tok.k = "note" -> emitNote(p, parseNote(tok, st))
         [] tok.k = "r" ->
              LET dur == parseLengthToken(tok.v, st)
              IN [p EXCEPT !.events = Append(p.events, [Ev("rest", st.tick) EXCEPT !.duration = dur]),
                           !.st.tick = st.tick + dur]
         [] tok.k = "t" ->
              add([Ev("tempo", st.tick) EXCEPT !.value = applyTMODETempo(tok.v, opts)])
         [] tok.k = "v" ->
              [add([Ev("volume", st.tick) EXCEPT !.value = tok.v]) EXCEPT !.st.volume = tok.v]
         [] tok.k = "q" ->
              LET val == clampInt(tok.v, 0, st.quantMax)
              IN [add([Ev("quantize", st.tick) EXCEPT !.value = val]) EXCEPT
                     !.st.quantValue = val,
                     !.st.gatePercent = (val * 100) \div st.quantMax]
         [] tok.k = "kt" ->
              [add([Ev("transpose", st.tick) EXCEPT !.value = tok.v]) EXCEPT !.st.transpose = tok.v]
         [] tok.k = "p" ->
              [add([Ev("pan", st.tick) EXCEPT !.value = normalizePanValue(tok.v)]) EXCEPT
                     !.st.pan = normalizePanValue(tok.v)]
         [] tok.k = "@" ->
              [add([Ev("program", st.tick) EXCEPT !.value = tok.v]) EXCEPT !.st.program = tok.v]
         [] tok.k = "@mask" ->
              add([Ev("control", st.tick) EXCEPT !.command = "@mask",
                                                 !.value = clampInt(tok.v, 0, 63)])
         [] tok.k = "&" ->
              [add([Ev("slur", st.tick) EXCEPT !.slur = "normal"]) EXCEPT !.st.slurMode = "normal"]
         [] tok.k = "$" ->
              [p EXCEPT !.loopTick = st.tick, !.loopIndex = Len(p.events)]
         [] OTHER -> p

RECURSIVE parseFrom(_, _, _, _)
parseFrom(toks, i, p, opts) ==
    IF i > Len(toks) THEN p ELSE parseFrom(toks, i + 1, parseStep(p, toks[i], opts), opts)

(***************************************************************************)
(* Loop expansion.  The tokens "[", "|" and "]" are the loop brackets; the *)
(* v of "]" is the repeat count written behind it (0: none written).  A    *)
(* result is [ok, out, next]: ok is FALSE where the code returns an error. *)
(***************************************************************************)
RECURSIVE Repeat(_, _)
Repeat(body, n) == IF n <= 0 THEN <<>> ELSE body \o Repeat(body, n - 1)

\* parseLoopBody at "]": the repeat count and the text the loop stands for
closeLoop(tok, at, pre, post, breakHit) ==
    LET number == IF tok.v = 0 THEN 2 ELSE tok.v
        repeat == IF number < 1 THEN 1 ELSE number
    IN [ok |-> TRUE, next |-> at + 1,
        out |-> IF breakHit THEN Repeat(pre, repeat - 1) \o post ELSE Repeat(pre, repeat)]

\* pre, post and breakHit are the locals of parseLoopBody; at is 1-based
RECURSIVE parseLoopBody(_, _, _, _, _, _)
RECURSIVE innerLoop(_, _, _, _, _, _)
innerLoop(src, depth, pre, post, breakHit, body) ==
    IF ~body.ok THEN body
    ELSE parseLoopBody(src, body.next, depth,
                       IF breakHit THEN pre ELSE pre \o body.out,
                       IF breakHit THEN post \o body.out ELSE post, breakHit)

parseLoopBody(src, at, depth, pre, post, breakHit) ==
    IF at > Len(src) THEN [ok |-> FALSE, next |-> at, out |-> <<>>]
    ELSE IF src[at].k = "[" 
         THEN innerLoop(src, depth, pre, post, breakHit,
                        parseLoopBody(src, at + 1, depth + 1, <<>>, <<>>, FALSE))
    ELSE IF src[at].k = "|" /\ depth = 1
         THEN parseLoopBody(src, at + 1, depth, pre, post, TRUE)
    ELSE IF src[at].k = "]"
         THEN closeLoop(src[at], at, pre, post, breakHit)
    ELSE parseLoopBody(src, at + 1, depth,
                       IF breakHit THEN pre ELSE Append(pre, src[at]),
                       IF breakHit THEN Append(post, src[at]) ELSE post, breakHit)

\* parseExpanded at depth 0; out is its strings.Builder
RECURSIVE parseExpanded(_, _, _)
outerLoop(src, out, body) ==
    IF ~body.ok THEN body ELSE parseExpanded(src, body.next, out \o body.out)

parseExpanded(src, at, out) ==
    IF at > Len(src) THEN [ok |-> TRUE, next |-> at, out |-> out]
    ELSE IF src[at].k = "]" THEN [ok |-> FALSE, next |-> at, out |-> <<>>]
    ELSE IF src[at].k # "[" THEN parseExpanded(src, at + 1, Append(out, src[at]))
    ELSE outerLoop(src, out, parseLoopBody(src, at + 1, 1, <<>>, <<>>, FALSE))

expandLoops(src) == parseExpanded(src, 1, <<>>)

\* Parser.parseTrack: the Track of a token sequence
parseTrack(toks, opts) ==
    LET p == parseFrom(expandLoops(toks).out, 1,
                       [st |-> newState, events |-> <<>>, loopTick |-> -1, loopIndex |-> -1],
                       opts)
    IN [events |-> p.events, endTick |-> p.st.tick,
        loopTick |-> p.loopTick, loopIndex |-> p.loopIndex]

\* Parser.Parse returns no error
ParseOK(trackSrcs) == \A i \in 1..Len(trackSrcs) : expandLoops(trackSrcs[i]).ok

\* Parser.Parse is handed trackSrcs and returns no error
ParseInput(trackSrcs) ==
    /\ ParseOK(trackSrcs)
    /\ source = trackSrcs
    /\ expanded = [i \in 1..Len(trackSrcs) |-> expandLoops(trackSrcs[i]).out]

\* Parser.Parse: one Track per track source
Parse(trackSrcs, opts) ==
    [resolution |-> Resolution, initialBPM |-> DefaultBPM,
     tracks |-> [i \in 1..Len(trackSrcs) |-> parseTrack(trackSrcs[i], opts)]]

(***************************************************************************)
(* Voice engine (the VoiceEngine contract as the FM engine implements it): *)
(* NoteOn hands out increasing ids, NoteOff puts the voice into release,   *)
(* RenderFrame advances the release and deactivates the voice at its end.  *)
(* voices[id + 1] is Held, 0 (inactive) or the release frames left.        *)
(* The operators below work on a record w of the sequencer and engine      *)
(* state (the fields are the variables of the same names).                 *)
(***************************************************************************)
ActiveVoiceCount(w) == Cardinality({i \in 1..Len(w.voices) : w.voices[i] # 0})

NoteOn(w, note, velocity, pan, program) ==
    [w EXCEPT !.voices = Append(w.voices, Held),
              !.nextID = w.nextID + 1,
              !.calls = Append(w.calls,
                  [op |-> "NoteOn", id |-> w.nextID, note |-> note, velocity |-> velocity,
                   pan |-> pan, program |-> program, tick |-> w.curTick, pass |-> w.passNo])]

NoteOff(w, id) ==
    [w EXCEPT !.voices = [i \in 1..Len(w.voices) |->
                             IF i = id + 1 /\ w.voices[i] = Held THEN ReleaseFrames
                             ELSE w.voices[i]],
              !.calls = Append(w.calls,
                  [op |-> "NoteOff", id |-> id, note |-> 0, velocity |-> 0,
                   pan |-> 0, program |-> [low |-> 0, cut |-> 0], tick |-> w.curTick, pass |-> w.passNo])]

RenderFrame(w) ==
    [w EXCEPT !.voices = [i \in 1..Len(w.voices) |->
                             IF w.voices[i] > 0 THEN w.voices[i] - 1 ELSE w.voices[i]]]

(***************************************************************************)
(* Sequencer (internal/sequencer).                                         *)
(***************************************************************************)
newRuntimeState ==
    [volume |-> 16, fineVolume |-> 127, expression |-> 128, vScaleMode |-> 0,
     vScaleMax |-> 16, xScaleMode |-> 0, pan |-> 0, program |-> 0, module |-> 0,
     channel |-> 0, delay |-> 0, slur |-> "none", transpose |-> 0, detune |-> 0,
     filterCut |-> 128, mask |-> 0, lastVoice |-> -1, lastNote |-> 0]

newTrackCursor(tr) ==
    [index |-> 0, loopIndex |-> tr.loopIndex, loopTick |-> tr.loopTick,
     endTick |-> tr.endTick, loopCycle |-> 0]

\* linear scaling modes (vScaleMode = 0, xScaleMode = 0)
applyScaledVelocity(volume, expression, fineVolume, vScaleMax) ==
    LET volMax == IF vScaleMax <= 0 THEN 16 ELSE vScaleMax
        v == clampInt(volume, 0, 127)
        x == clampInt(expression, 0, 128)
        fv == clampInt(fineVolume, 0, 128)
        vN == IF v > volMax THEN volMax ELSE v
    IN clampInt(RoundDiv(vN * x * fv * 127, volMax * 128 * 128), 0, 127)

\* no filter envelope, amplitude table or amplitude LFO is active
applyAmpControls(rt, vel) ==
    LET v0 == IF vel <= 0 THEN 1 ELSE vel
        v1 == (v0 * clampInt(rt.filterCut, 1, 128)) \div 128
    IN IF v1 < 1 THEN 1 ELSE v1

\* peekEvent: <<ok, event, effective tick>> of the cursor tc over events
\* a peek that offsets a repeated event by whole track lengths instead of loop lengths
peekEventByTrackLength(tc, events) ==
    IF tc.index < 0 \/ tc.index >= Len(events)
    THEN [ok |-> FALSE, ev |-> Ev("none", 0), effectiveTick |-> 0]
    ELSE LET ev == events[tc.index + 1]
         IN IF tc.loopCycle = 0 \/ tc.loopIndex < 0 \/ tc.index < tc.loopIndex
            THEN [ok |-> TRUE, ev |-> ev, effectiveTick |-> ev.tick]
            ELSE [ok |-> TRUE, ev |-> ev,
                  effectiveTick |-> ev.tick + tc.loopCycle * tc.endTick]

peekEvent(tc, events) ==
    IF tc.index < 0 \/ tc.index >= Len(events)
    THEN [ok |-> FALSE, ev |-> Ev("none", 0), effectiveTick |-> 0]
    ELSE LET ev == events[tc.index + 1]
         IN IF tc.loopCycle = 0 \/ tc.loopIndex < 0 \/ tc.index < tc.loopIndex
            THEN [ok |-> TRUE, ev |-> ev, effectiveTick |-> ev.tick]
            ELSE [ok |-> TRUE, ev |-> ev,
                  effectiveTick |-> ev.tick + tc.loopCycle * (tc.endTick - tc.loopTick)]

cancelPendingNoteOff(w, voice) ==
    [w EXCEPT !.noteOffs = [i \in 1..Len(w.noteOffs) |->
                               IF w.noteOffs[i].voice = voice /\ ~w.noteOffs[i].fired
                               THEN [w.noteOffs[i] EXCEPT !.fired = TRUE]
                               ELSE w.noteOffs[i]]]

applyControl(w, trackIndex, ev) ==
    IF ev.command = "@mask"
    THEN [w EXCEPT !.trackRuntime[trackIndex].mask = clampInt(ev.value, 0, 63)]
    ELSE w

\* a slur boundary that releases the previous voice but leaves its queue entry alone
closePreviousVoiceKeepQueue(w, rt, ev) ==
    IF ev.slur # "none" /\ rt.lastVoice >= 0
    THEN NoteOff(w, rt.lastVoice)
    ELSE w

\* applyEvent, case mml.EventNote: the slur boundary
closePreviousVoice(w, rt, ev) ==
    IF ev.slur # "none" /\ rt.lastVoice >= 0
    THEN cancelPendingNoteOff(NoteOff(w, rt.lastVoice), rt.lastVoice)
    ELSE w

noteVelocity(rt, ev) ==
    applyAmpControls(rt,
        IF ev.value <= 0
        THEN applyScaledVelocity(rt.volume, rt.expression, rt.fineVolume, rt.vScaleMax)
        ELSE ev.value)

\* Options.MasterTranspose is 0
notePitch(rt, ev) == clampInt(ev.note + rt.transpose + GoDiv(rt.detune, 64), 0, 127)

notePan(rt, ev) ==
    clampInt(IF ~BitSet(rt.mask, 2) /\ ev.pan # 0 THEN ev.pan ELSE rt.pan, -64, 64)

\* the encoded program is low + (cut << 24); the two parts are kept apart
noteProgram(rt, ev) ==
    [low |-> (IF ev.program = 0 THEN rt.program ELSE ev.program)
             + rt.module * 256 + rt.channel * 65536,
     cut |-> clampInt(rt.filterCut, 0, 255)]

noteOffTick(ev, eventTick) ==
    (IF ev.gateTick >= 0 THEN eventTick + ev.gateTick ELSE eventTick + ev.duration)
    + (IF ev.delay > 0 THEN ev.delay ELSE 0)

\* applyEvent, case mml.EventNote: after NoteOn returned voiceID
recordVoice(w, trackIndex, voiceID, note, offTick) ==
    [w EXCEPT !.trackRuntime[trackIndex].lastVoice = voiceID,
              !.trackRuntime[trackIndex].lastNote = note,
              !.noteOffs = Append(w.noteOffs,
                                  [tick |-> offTick, voice |-> voiceID, fired |-> FALSE])]

startNote(w, trackIndex, rt, ev, eventTick) ==
    recordVoice(NoteOn(w, notePitch(rt, ev), noteVelocity(rt, ev), notePan(rt, ev),
                       noteProgram(rt, ev)),
                trackIndex, w.nextID, notePitch(rt, ev), noteOffTick(ev, eventTick))

applyNote(w, trackIndex, ev, eventTick) ==
    startNote(closePreviousVoice(w, w.trackRuntime[trackIndex], ev),
              trackIndex, w.trackRuntime[trackIndex], ev, eventTick)

applyEvent(w, trackIndex, tc, ev, eventTick) ==
    LET rt == w.trackRuntime[trackIndex]
    IN CASE ev.type = "tempo" ->
              IF tc.loopCycle > 0 /\ tc.loopIndex >= 0 /\ ev.tick >= tc.loopTick
              THEN w
              ELSE [w EXCEPT !.ticksPerSamp = ev.value * score.resolution]
         [] ev.type = "volume" ->
              IF BitSet(rt.mask, 1) THEN w
              ELSE [w EXCEPT !.trackRuntime[trackIndex].volume = ev.value]
         [] ev.type = "finevolume" ->
              IF BitSet(rt.mask, 1) THEN w
              ELSE [w EXCEPT !.trackRuntime[trackIndex].fineVolume = ev.value]
         [] ev.type = "expression" ->
              IF BitSet(rt.mask, 1) THEN w
              ELSE [w EXCEPT !.trackRuntime[trackIndex].expression = ev.value]
         [] ev.type = "pan" ->
              IF BitSet(rt.mask, 2) THEN w
              ELSE [w EXCEPT !.trackRuntime[trackIndex].pan = ev.value]
         [] ev.type = "program" ->
              [w EXCEPT !.trackRuntime[trackIndex].program = ev.value]
         [] ev.type = "transpose" ->
              [w EXCEPT !.trackRuntime[trackIndex].transpose = ev.value]
         [] ev.type = "slur" ->
              [w EXCEPT !.trackRuntime[trackIndex].slur = ev.slur]
         [] ev.type = "control" -> applyControl(w, trackIndex, ev)
         [] ev.type = "note" -> applyNote(w, trackIndex, ev, eventTick)
         [] OTHER -> w

\* what an applyEvent call can read or change: the track's runtime state, the tick
\* rate, and the engine calls made so far
Snapshot(w, trkIdx) ==
    [rt |-> w.trackRuntime[trkIdx], ticksPerSamp |-> w.ticksPerSamp, nCalls |-> Len(w.calls),
     queued |-> {[voice |-> w.noteOffs[i].voice, tick |-> w.noteOffs[i].tick] :
                    i \in {j \in 1..Len(w.noteOffs) : ~w.noteOffs[j].fired}}]

\* dispatchTick: the cursor moves on after applyEvent, rewinding at the end of a `$` loop;
\* pre is the snapshot taken before applyEvent
advanceCursor(w, trkIdx, tc, pk, tick, rewind, pre) ==
    [w EXCEPT !.trackState[trkIdx].index = IF rewind THEN tc.loopIndex ELSE tc.index + 1,
              !.trackState[trkIdx].loopCycle =
                  IF rewind THEN tc.loopCycle + 1 ELSE tc.loopCycle,
              !.dispatched = Append(w.dispatched,
                  [trk |-> trkIdx, index |-> tc.index, cycle |-> tc.loopCycle,
                   type |-> pk.ev.type, evTick |-> pk.ev.tick,
                   effectiveTick |-> pk.effectiveTick, at |-> tick, pass |-> w.passNo,
                   ev |-> pk.ev, pre |-> pre, post |-> Snapshot(w, trkIdx)])]

cursorRewinds(tc, nEvents) ==
    tc.index + 1 >= nEvents /\ tc.loopIndex >= 0 /\ tc.endTick > tc.loopTick

\* the loop over one track's cursor inside dispatchTick
RECURSIVE drainTrack(_, _, _)
drainStep(w, trkIdx, tick, tc, pk) ==
    IF ~pk.ok \/ pk.effectiveTick > tick THEN w
    ELSE drainTrack(advanceCursor(applyEvent(w, trkIdx, tc, pk.ev, pk.effectiveTick),
                                  trkIdx, tc, pk, tick,
                                  cursorRewinds(tc, Len(score.tracks[trkIdx].events)),
                                  Snapshot(w, trkIdx)),
                    trkIdx, tick)

drainTrack(w, trkIdx, tick) ==
    drainStep(w, trkIdx, tick, w.trackState[trkIdx],
              peekEvent(w.trackState[trkIdx], score.tracks[trkIdx].events))

RECURSIVE drainTracks(_, _, _)
drainTracks(w, trkIdx, tick) ==
    IF trkIdx > Len(w.trackState) THEN w
    ELSE drainTracks(drainTrack(w, trkIdx, tick), trkIdx + 1, tick)

\* a note-off loop that fires the due entries and leaves them unmarked
RECURSIVE fireNoteOffsUnmarked(_, _, _)
fireNoteOffsUnmarked(w, i, tick) ==
    IF i > Len(w.noteOffs) THEN w
    ELSE IF ~w.noteOffs[i].fired /\ w.noteOffs[i].tick <= tick
         THEN fireNoteOffsUnmarked(NoteOff(w, w.noteOffs[i].voice), i + 1, tick)
         ELSE fireNoteOffsUnmarked(w, i + 1, tick)

\* the note-off loop of dispatchTick
RECURSIVE fireNoteOffs(_, _, _)
fireNoteOffs(w, i, tick) ==
    IF i > Len(w.noteOffs) THEN w
    ELSE IF ~w.noteOffs[i].fired /\ w.noteOffs[i].tick <= tick
         THEN fireNoteOffs([NoteOff(w, w.noteOffs[i].voice) EXCEPT !.noteOffs[i].fired = TRUE],
                           i + 1, tick)
         ELSE fireNoteOffs(w, i + 1, tick)

\* insertion of key behind every entry whose tick is not larger
RECURSIVE insertByTick(_, _)
insertByTick(sorted, key) ==
    IF sorted = <<>> THEN <<key>>
    ELSE IF sorted[Len(sorted)].tick > key.tick
         THEN Append(insertByTick(SubSeq(sorted, 1, Len(sorted) - 1), key), sorted[Len(sorted)])
         ELSE Append(sorted, key)

RECURSIVE insertionSort(_, _, _)
insertionSort(q, i, acc) ==
    IF i > Len(q) THEN acc ELSE insertionSort(q, i + 1, insertByTick(acc, q[i]))

compactNoteOffs(q) ==
    insertionSort(SelectSeq(q, LAMBDA n : ~n.fired), 1, <<>>)

scoreExhausted(w) ==
    \A i \in 1..Len(w.trackState) :
        LET tc == w.trackState[i]
        IN /\ ~(tc.index < Len(score.tracks[i].events))
           /\ ~(tc.loopIndex >= 0 /\ tc.endTick > tc.loopTick)

\* the tail of dispatchTick: tally exhaustion
tallyExhaustion(w) ==
    IF Len(w.noteOffs) = 0 /\ scoreExhausted(w)
    THEN IF loopWholeScore
         THEN IF ~w.loopPending
              THEN [w EXCEPT !.loopPending = TRUE,
                             !.loopTailCountdown = w.releaseTailFrames]
              ELSE w
         ELSE [w EXCEPT !.commandExhausted = TRUE]
    ELSE w

compactQueue(w) == [w EXCEPT !.noteOffs = compactNoteOffs(w.noteOffs)]

dispatchTick(w, tick) ==
    tallyExhaustion(compactQueue(
        fireNoteOffs(drainTracks([w EXCEPT !.curTick = tick], 1, tick), 1, tick)))

\* a reset that rewinds the cursors and the clock but keeps the tracks' runtime state
resetKeepingRuntime(w) ==
    [w EXCEPT !.pendingReset = FALSE,
              !.loopPending = FALSE,
              !.tickFrac = 0,
              !.tickInt = 0,
              !.ticksPerSamp = initialTicksPerSamp,
              !.noteOffs = <<>>,
              !.trackState = [i \in 1..Len(score.tracks) |-> newTrackCursor(score.tracks[i])],
              !.passNo = w.passNo + 1]

resetForWholeScoreLoop(w) ==
    [w EXCEPT !.pendingReset = FALSE,
              !.loopPending = FALSE,
              !.tickFrac = 0,
              !.tickInt = 0,
              !.ticksPerSamp = initialTicksPerSamp,
              !.noteOffs = <<>>,
              !.trackState = [i \in 1..Len(score.tracks) |-> newTrackCursor(score.tracks[i])],
              !.trackRuntime = [i \in 1..Len(score.tracks) |-> newRuntimeState],
              !.passNo = w.passNo + 1]

\* the inner loop of Process: dispatch every tick up to nextTick
RECURSIVE dispatchUpTo(_, _)
dispatchUpTo(w, nextTick) ==
    IF w.tickInt <= nextTick
    THEN dispatchUpTo([dispatchTick(w, w.tickInt) EXCEPT !.tickInt = w.tickInt + 1], nextTick)
    ELSE w

\* the end-of-loop check of Process, after RenderFrame
loopCheck(w) ==
    IF w.loopPending /\ ActiveVoiceCount(w) = 0
    THEN IF w.loopTailCountdown <= 0
         THEN [w EXCEPT !.loopPending = FALSE, !.pendingReset = TRUE,
                        !.emitted = Append(w.emitted, "LoopCompleted")]
         ELSE [w EXCEPT !.loopTailCountdown = w.loopTailCountdown - 1]
    ELSE w

\* the end-of-playback check of Process, after RenderFrame
endCheck(w) ==
    IF w.commandExhausted /\ ~w.playbackEndedFired /\ ActiveVoiceCount(w) = 0
    THEN IF w.releaseTailFrames <= 0
         THEN [w EXCEPT !.playbackEndedFired = TRUE,
                        !.emitted = Append(w.emitted, "PlaybackEnded")]
         ELSE [w EXCEPT !.releaseTailFrames = w.releaseTailFrames - 1]
    ELSE w

\* Process: tickFrac += ticksPerSamp, then every tick up to int(tickFrac)
advanceClock(w) == [w EXCEPT !.tickFrac = w.tickFrac + w.ticksPerSamp]

dispatchDue(w) == dispatchUpTo(w, w.tickFrac \div TickDen)

resetIfPending(w) == IF w.pendingReset THEN resetForWholeScoreLoop(w) ELSE w

\* bookkeeping of the frame just rendered: zeroFrames counts the frames rendered
\* with no active voice since the sequencer found the score exhausted
countFrame(w) ==
    [w EXCEPT !.zeroFrames =
                  IF ActiveVoiceCount(w) = 0 /\ (w.loopPending \/ w.commandExhausted)
                  THEN (IF w.zeroFrames > tailInit THEN w.zeroFrames ELSE w.zeroFrames + 1)
                  ELSE 0,
              !.extraFrames =
                  IF w.playbackEndedFired THEN w.extraFrames + 1 ELSE w.extraFrames]

\* one iteration of the frame loop of Process
ProcessFrame(w) ==
    endCheck(loopCheck(countFrame(RenderFrame(resetIfPending(dispatchDue(advanceClock(w)))))))

(***************************************************************************)
(* Scores: the parser's output for every short track source.               *)
(***************************************************************************)
Alphabet ==
    {Tok("note", 2), Tok("r", 4), Tok("t", 30), Tok("q", 8), Tok("$", 0), Tok("&", 0),
     Tok("kt", 1)}

TokSeqs(n) == UNION {[1..k -> Alphabet] : k \in 1..n}

TrackSources ==
    {<<src>> : src \in TokSeqs(MaxTokens)}
    \cup {<<a, b>> : a \in TokSeqs(MaxTokens - 1), b \in TokSeqs(1)}
    \cup {<<a, <<Tok("note", 2), Tok("note", 2)>>>> : a \in TokSeqs(MaxTokens)}

ParserOptions ==
    {[tempoMode |-> m, tempoUnit |-> TempoUnit, tempoFPS |-> 60] : m \in {"", "unit"}}

\* the record the sequencer operators work on
World ==
    [ticksPerSamp |-> ticksPerSamp, tickFrac |-> tickFrac, tickInt |-> tickInt,
     trackState |-> trackState, trackRuntime |-> trackRuntime, noteOffs |-> noteOffs,
     pendingReset |-> pendingReset, playbackEndedFired |-> playbackEndedFired,
     commandExhausted |-> commandExhausted, releaseTailFrames |-> releaseTailFrames,
     loopPending |-> loopPending, loopTailCountdown |-> loopTailCountdown,
     voices |-> voices, nextID |-> nextID, calls |-> calls, dispatched |-> dispatched,
     emitted |-> emitted, zeroFrames |-> zeroFrames, passNo |-> passNo,
     extraFrames |-> extraFrames, curTick |-> 0]

SetWorld(w) ==
    /\ ticksPerSamp' = w.ticksPerSamp
    /\ tickFrac' = w.tickFrac
    /\ tickInt' = w.tickInt
    /\ trackState' = w.trackState
    /\ trackRuntime' = w.trackRuntime
    /\ noteOffs' = w.noteOffs
    /\ pendingReset' = w.pendingReset
    /\ playbackEndedFired' = w.playbackEndedFired
    /\ commandExhausted' = w.commandExhausted
    /\ releaseTailFrames' = w.releaseTailFrames
    /\ loopPending' = w.loopPending
    /\ loopTailCountdown' = w.loopTailCountdown
    /\ voices' = w.voices
    /\ nextID' = w.nextID
    /\ calls' = w.calls
    /\ dispatched' = w.dispatched
    /\ emitted' = w.emitted
    /\ zeroFrames' = w.zeroFrames
    /\ passNo' = w.passNo
    /\ extraFrames' = w.extraFrames

\* NewWithOptions(score, engine, sampleRate, opts)
NewWithOptions(sc, loop, tailOpt) ==
    /\ score = sc
    /\ loopWholeScore = loop
    /\ releaseTailFrames = (IF tailOpt <= 0 THEN SampleRate \div 2 ELSE tailOpt)
    /\ tailInit = releaseTailFrames
    /\ ticksPerSamp = (IF sc.initialBPM <= 0 THEN 120 ELSE sc.initialBPM) * sc.resolution
    /\ initialTicksPerSamp = ticksPerSamp
    /\ tickFrac = 0
    /\ tickInt = 0
    /\ trackState = [i \in 1..Len(sc.tracks) |-> newTrackCursor(sc.tracks[i])]
    /\ trackRuntime = [i \in 1..Len(sc.tracks) |-> newRuntimeState]
    /\ noteOffs = <<>>
    /\ pendingReset = FALSE
    /\ playbackEndedFired = FALSE
    /\ commandExhausted = FALSE
    /\ loopPending = FALSE
    /\ loopTailCountdown = 0
    /\ voices = <<>>
    /\ nextID = 0
    /\ calls = <<>>
    /\ dispatched = <<>>
    /\ emitted = <<>>
    /\ zeroFrames = 0
    /\ passNo = 0
    /\ extraFrames = 0

(***************************************************************************)
(* The Player facade (player.go).  A Play call k makes done channel k and, *)
(* when it succeeds, audio backend k, whose StreamReader.Read runs on the  *)
(* realtime thread realtime[k].  Lock() is a step that waits for the mutex to be *)
(* free; the code between two blocking points is one step.                 *)
(***************************************************************************)
PlayIds == 1..MaxPlays
WatchIds == 1..MaxWatch

CtlIdle == [pc |-> "idle", play |-> 0, done |-> 0, ch |-> 0]
RtIdle == [pc |-> "idle", kind |-> "", ch |-> 0, done |-> 0]

\* the Player returned by NewPlayer, nothing played or watched yet
NewPlayer ==
    /\ mu = ""
    /\ eventChMu = ""
    /\ audio = 0
    /\ done = 0
    /\ doneClosed = [k \in PlayIds |-> 0]
    /\ eventCh = 0
    /\ chBuf = [w \in WatchIds |-> <<>>]
    /\ chClosed = [w \in WatchIds |-> 0]
    /\ backend = [k \in PlayIds |-> "none"]
    /\ finished = [k \in PlayIds |-> FALSE]
    /\ loops = 0
    /\ plays = 0
    /\ watches = 0
    /\ ctl = CtlIdle
    /\ realtime = [k \in PlayIds |-> RtIdle]
    /\ readerMu = [k \in PlayIds |-> FALSE]
    /\ waiter = [pc |-> "idle", done |-> 0, play |-> 0]
    /\ offers = [k \in PlayIds |-> 0]
    /\ playFailed = FALSE
    /\ dropped = {}

\* close(ch) on a done channel; 0 is the nil channel the callers skip
close(closed, ch) == IF ch = 0 THEN closed ELSE [closed EXCEPT ![ch] = @ + 1]

\* a send that does not look at the room left in the channel
selectUnbounded(buf, ch, kind) ==
    IF ch # 0 THEN [buf EXCEPT ![ch] = Append(@, kind)] ELSE buf

\* the select of sendEvent: the send succeeds only into a non-nil channel with room
select(buf, ch, kind) ==
    IF ch # 0 /\ Len(buf[ch]) < EventChCap THEN [buf EXCEPT ![ch] = Append(@, kind)] ELSE buf

dropReason(buf, ch) ==
    IF ch = 0 THEN {"no watcher"} ELSE IF Len(buf[ch]) >= EventChCap THEN {"full"} ELSE {}

\* a playback is current and its end has not been signalled yet
ActivePlayback == audio # 0 /\ ~(finished[audio] /\ realtime[audio].pc = "idle")

\* ---- Play ----
PlayEnter ==
    /\ ctl.pc = "idle" /\ mu = "" /\ plays < MaxPlays
    /\ mu' = "ctl"
    /\ ctl' = [ctl EXCEPT !.pc = "Play"]
    /\ UNCHANGED <<eventChMu, audio, done, doneClosed, eventCh, chBuf, backend, finished,
                   loops, plays, watches, realtime, readerMu, waiter, offers, playFailed, dropped>>
    /\ UNCHANGED chClosed
    /\ UNCHANGED seqVars
    /\ UNCHANGED engineVars

\* the body of Play under p.mu; ok is whether intaudio.NewPlayer succeeds
Play(ok) ==
    /\ ctl.pc = "Play"
    /\ plays' = plays + 1
    /\ doneClosed' = close(doneClosed, done)
    /\ done' = plays + 1
    /\ IF ok
       THEN /\ backend' = [k \in PlayIds |->
                              IF k = plays + 1 THEN "playing"
                              ELSE IF k = audio THEN "stopped" ELSE backend[k]]
            /\ audio' = plays + 1
       ELSE UNCHANGED <<backend, audio>>
    /\ playFailed' = ~ok
    /\ mu' = ""
    /\ ctl' = CtlIdle
    /\ UNCHANGED <<eventChMu, eventCh, chBuf, finished, loops, watches, realtime, readerMu,
                   waiter, offers, dropped>>
    /\ UNCHANGED chClosed
    /\ UNCHANGED seqVars
    /\ UNCHANGED engineVars

\* ---- Pause, Resume ----
Pause ==
    /\ ctl.pc = "idle" /\ mu = ""
    /\ backend' = IF audio # 0 THEN [backend EXCEPT ![audio] = "paused"] ELSE backend
    /\ UNCHANGED <<mu, eventChMu, audio, done, doneClosed, eventCh, chBuf, finished, loops,
                   plays, watches, ctl, realtime, readerMu, waiter, offers, playFailed, dropped>>
    /\ UNCHANGED chClosed
    /\ UNCHANGED seqVars
    /\ UNCHANGED engineVars

Resume ==
    /\ ctl.pc = "idle" /\ mu = ""
    /\ backend' = IF audio # 0 THEN [backend EXCEPT ![audio] = "playing"] ELSE backend
    /\ UNCHANGED <<mu, eventChMu, audio, done, doneClosed, eventCh, chBuf, finished, loops,
                   plays, watches, ctl, realtime, readerMu, waiter, offers, playFailed, dropped>>
    /\ UNCHANGED chClosed
    /\ UNCHANGED seqVars
    /\ UNCHANGED engineVars

\* ---- Stop ----
\* the part of Stop under p.mu
StopEnter ==
    /\ ctl.pc = "idle" /\ mu = ""
    /\ IF audio = 0
       THEN UNCHANGED <<backend, audio, done, ctl>>
       ELSE /\ backend' = [backend EXCEPT ![audio] = "stopped"]
            /\ audio' = 0
            /\ done' = 0
            /\ ctl' = [pc |-> "sendEvent", play |-> audio, done |-> done, ch |-> 0]
    /\ UNCHANGED <<mu, eventChMu, doneClosed, eventCh, chBuf, finished, loops, plays,
                   watches, realtime, readerMu, waiter, offers, playFailed, dropped>>
    /\ UNCHANGED chClosed
    /\ UNCHANGED seqVars
    /\ UNCHANGED engineVars

\* sendEvent reads p.eventCh under p.eventChMu
StopSendEvent ==
    /\ ctl.pc = "sendEvent" /\ eventChMu = ""
    /\ ctl' = [ctl EXCEPT !.pc = "select", !.ch = eventCh]
    /\ UNCHANGED <<mu, eventChMu, audio, done, doneClosed, eventCh, chBuf, backend, finished,
                   loops, plays, watches, realtime, readerMu, waiter, offers, playFailed, dropped>>
    /\ UNCHANGED chClosed
    /\ UNCHANGED seqVars
    /\ UNCHANGED engineVars

\* the send of PlaybackEnded, then close(done)
StopSelect ==
    /\ ctl.pc = "select"
    /\ chBuf' = select(chBuf, ctl.ch, "PlaybackEnded")
    /\ dropped' = dropped \cup dropReason(chBuf, ctl.ch)
    /\ offers' = [offers EXCEPT ![ctl.play] = @ + 1]
    /\ doneClosed' = close(doneClosed, ctl.done)
    /\ ctl' = CtlIdle
    /\ UNCHANGED <<mu, eventChMu, audio, done, eventCh, backend, finished, loops, plays,
                   watches, realtime, readerMu, waiter, playFailed>>
    /\ UNCHANGED chClosed
    /\ UNCHANGED seqVars
    /\ UNCHANGED engineVars

\* ---- Watch ----
WatchEnter ==
    /\ ctl.pc = "idle" /\ eventChMu = "" /\ watches < MaxWatch
    /\ eventChMu' = "ctl"
    /\ ctl' = [ctl EXCEPT !.pc = "Watch"]
    /\ UNCHANGED <<mu, audio, done, doneClosed, eventCh, chBuf, backend, finished, loops,
                   plays, watches, realtime, readerMu, waiter, offers, playFailed, dropped>>
    /\ UNCHANGED chClosed
    /\ UNCHANGED seqVars
    /\ UNCHANGED engineVars

Watch ==
    /\ ctl.pc = "Watch"
    /\ watches' = watches + 1
    /\ eventCh' = watches + 1
    /\ eventChMu' = ""
    /\ ctl' = CtlIdle
    /\ UNCHANGED <<mu, audio, done, doneClosed, chBuf, backend, finished, loops, plays,
                   realtime, readerMu, waiter, offers, playFailed, dropped>>
    /\ UNCHANGED chClosed
    /\ UNCHANGED seqVars
    /\ UNCHANGED engineVars

\* the consumer of a Watch channel takes the oldest event
Receive(w) ==
    /\ w <= watches /\ chBuf[w] # <<>>
    /\ chBuf' = [chBuf EXCEPT ![w] = Tail(@)]
    /\ UNCHANGED <<mu, eventChMu, audio, done, doneClosed, eventCh, backend, finished, loops,
                   plays, watches, ctl, realtime, readerMu, waiter, offers, playFailed, dropped>>
    /\ UNCHANGED chClosed
    /\ UNCHANGED seqVars
    /\ UNCHANGED engineVars

\* ---- Wait ----
\* Wait reads p.done under p.mu and returns at once when it is nil
WaitCall ==
    /\ waiter.pc = "idle" /\ mu = ""
    /\ waiter' = [pc |-> IF done = 0 THEN "returned" ELSE "blocked",
                  done |-> done,
                  play |-> IF ActivePlayback THEN audio ELSE 0]
    /\ UNCHANGED <<mu, eventChMu, audio, done, doneClosed, eventCh, chBuf, backend, finished,
                   loops, plays, watches, ctl, realtime, readerMu, offers, playFailed, dropped>>
    /\ UNCHANGED chClosed
    /\ UNCHANGED seqVars
    /\ UNCHANGED engineVars

\* <-done
WaitReturn ==
    /\ waiter.pc = "blocked" /\ doneClosed[waiter.done] > 0
    /\ waiter' = [waiter EXCEPT !.pc = "returned"]
    /\ UNCHANGED <<mu, eventChMu, audio, done, doneClosed, eventCh, chBuf, backend, finished,
                   loops, plays, watches, ctl, realtime, readerMu, offers, playFailed, dropped>>
    /\ UNCHANGED chClosed
    /\ UNCHANGED seqVars
    /\ UNCHANGED engineVars

\* ---- the realtime thread of playback k ----
\* the sink calls StreamReader.Read, which takes the reader's mutex
RtRead(k) ==
    /\ realtime[k].pc = "idle" /\ backend[k] = "playing" /\ ~finished[k]
    /\ readerMu' = [readerMu EXCEPT ![k] = TRUE]
    /\ realtime' = [realtime EXCEPT ![k].pc = "Process"]
    /\ UNCHANGED <<mu, eventChMu, audio, done, doneClosed, eventCh, chBuf, backend, finished,
                   loops, plays, watches, ctl, waiter, offers, playFailed, dropped>>
    /\ UNCHANGED chClosed
    /\ UNCHANGED seqVars
    /\ UNCHANGED engineVars

\* the event kinds the sequencer of playback k can still raise from Process
Raisable(k) ==
    IF loopWholeScore
    THEN (IF loops < MaxLoops THEN {"LoopCompleted"} ELSE {})
    ELSE {"PlaybackEnded"}

\* eventWrapper.Process renders the buffer and raises no event: Read returns
RtProcess(k) ==
    /\ realtime[k].pc = "Process"
    /\ readerMu' = [readerMu EXCEPT ![k] = FALSE]
    /\ realtime' = [realtime EXCEPT ![k] = RtIdle]
    /\ UNCHANGED <<mu, eventChMu, audio, done, doneClosed, eventCh, chBuf, backend, finished,
                   loops, plays, watches, ctl, waiter, offers, playFailed, dropped>>
    /\ UNCHANGED chClosed
    /\ UNCHANGED seqVars
    /\ UNCHANGED engineVars

\* eventWrapper.Process renders the buffer and the sequencer calls onEvent(kind)
RtOnEvent(k, kind) ==
    /\ realtime[k].pc = "Process" /\ kind \in Raisable(k)
    /\ finished' = [finished EXCEPT ![k] = (kind = "PlaybackEnded")]
    /\ loops' = IF kind = "LoopCompleted" THEN loops + 1 ELSE loops
    /\ realtime' = [realtime EXCEPT ![k].pc = "sendEvent", ![k].kind = kind]
    /\ UNCHANGED <<mu, eventChMu, audio, done, doneClosed, eventCh, chBuf, backend, plays,
                   watches, ctl, readerMu, waiter, offers, playFailed, dropped>>
    /\ UNCHANGED chClosed
    /\ UNCHANGED seqVars
    /\ UNCHANGED engineVars

\* sendEvent reads p.eventCh under p.eventChMu
RtSendEvent(k) ==
    /\ realtime[k].pc = "sendEvent" /\ eventChMu = ""
    /\ realtime' = [realtime EXCEPT ![k].pc = "select", ![k].ch = eventCh]
    /\ UNCHANGED <<mu, eventChMu, audio, done, doneClosed, eventCh, chBuf, backend, finished,
                   loops, plays, watches, ctl, readerMu, waiter, offers, playFailed, dropped>>
    /\ UNCHANGED chClosed
    /\ UNCHANGED seqVars
    /\ UNCHANGED engineVars

\* the send; after LoopCompleted the callback and Read return
RtSelect(k) ==
    /\ realtime[k].pc = "select"
    /\ chBuf' = select(chBuf, realtime[k].ch, realtime[k].kind)
    /\ dropped' = dropped \cup dropReason(chBuf, realtime[k].ch)
    /\ IF realtime[k].kind = "PlaybackEnded"
       THEN /\ offers' = [offers EXCEPT ![k] = @ + 1]
            /\ realtime' = [realtime EXCEPT ![k].pc = "signalDone"]
            /\ UNCHANGED readerMu
       ELSE /\ realtime' = [realtime EXCEPT ![k] = RtIdle]
            /\ readerMu' = [readerMu EXCEPT ![k] = FALSE]
            /\ UNCHANGED offers
    /\ UNCHANGED <<mu, eventChMu, audio, done, doneClosed, eventCh, backend, finished, loops,
                   plays, watches, ctl, waiter, playFailed>>
    /\ UNCHANGED chClosed
    /\ UNCHANGED seqVars
    /\ UNCHANGED engineVars

\* a signalDone that leaves p.done in place after taking it
RtSignalDoneKeepDone(k) ==
    /\ realtime[k].pc = "signalDone" /\ mu = ""
    /\ realtime' = [realtime EXCEPT ![k].pc = "close", ![k].done = done]
    /\ UNCHANGED <<mu, eventChMu, audio, done, doneClosed, eventCh, chBuf, backend, finished,
                   loops, plays, watches, ctl, readerMu, waiter, offers, playFailed, dropped>>
    /\ UNCHANGED chClosed
    /\ UNCHANGED seqVars
    /\ UNCHANGED engineVars

\* signalDone takes p.done under p.mu
RtSignalDone(k) ==
    /\ realtime[k].pc = "signalDone" /\ mu = ""
    /\ realtime' = [realtime EXCEPT ![k].pc = "close", ![k].done = done]
    /\ done' = 0
    /\ UNCHANGED <<mu, eventChMu, audio, doneClosed, eventCh, chBuf, backend, finished, loops,
                   plays, watches, ctl, readerMu, waiter, offers, playFailed, dropped>>
    /\ UNCHANGED chClosed
    /\ UNCHANGED seqVars
    /\ UNCHANGED engineVars

\* signalDone closes the channel it took; the callback and Read return
RtClose(k) ==
    /\ realtime[k].pc = "close"
    /\ doneClosed' = close(doneClosed, realtime[k].done)
    /\ realtime' = [realtime EXCEPT ![k] = RtIdle]
    /\ readerMu' = [readerMu EXCEPT ![k] = FALSE]
    /\ UNCHANGED <<mu, eventChMu, audio, done, eventCh, chBuf, backend, finished, loops,
                   plays, watches, ctl, waiter, offers, playFailed, dropped>>
    /\ UNCHANGED chClosed
    /\ UNCHANGED seqVars
    /\ UNCHANGED engineVars

(***************************************************************************)
(* The engines behind a playback: the four engine packages, MultiEngine    *)
(* (internal/sequencer/multi_engine.go) and the part of the Player that    *)
(* builds them (player.go).  Gains are in hundredths, volumes in            *)
(* VolumeUnit-ths, so a master gain or a sample of 1.0 is One.  A sounding *)
(* voice at full velocity, panned hard left, contributes its waveform      *)
(* value times the master gain to the left sample; only the left sample is *)
(* followed, the right one is computed the same way.  A released voice is  *)
(* taken as silent at once.                                                *)
(***************************************************************************)
SynthModes == {"fm", "chiptune", "nesapu", "wavetable"}
Modules == {0, 1, 2, 4, 6, 8}
One == 100 * VolumeUnit
Volumes == {-1, 1, 2 * VolumeUnit}
Nil == [engines |-> <<>>, defaultMod |-> -1, currentMod |-> -1]
NoCall == [module |-> -1, engine |-> 0, local |-> -1, id |-> -1]

\* DefaultParams().MasterGain of the engine package
MasterGain(kind) ==
    CASE kind = "fm" -> FMMasterGain
      [] kind = "chiptune" -> ChiptuneMasterGain
      [] kind = "nesapu" -> NESMasterGain
      [] kind = "wavetable" -> WavetableMasterGain

\* New(sampleRate, params) of an engine package
NewEngine(kind) ==
    [kind |-> kind, masterGain |-> MasterGain(kind) * VolumeUnit, nextID |-> 0, voices |-> {}]

SetMasterGain(e, gain) == [e EXCEPT !.masterGain = IF gain < 0 THEN 0 ELSE gain]

newEngineForMode(m) == NewEngine(m)

\* engineForModule on the engines made so far: the engine's place in the list,
\* the list and the gain
engineForModule(module, list, defaultEng, defaultGain) ==
    CASE module \in {1, 8} ->
           [list |-> Append(list, NewEngine("chiptune")), e |-> Len(list) + 1, g |-> ChiptuneMasterGain]
      [] module = 4 ->
           [list |-> Append(list, NewEngine("wavetable")), e |-> Len(list) + 1, g |-> WavetableMasterGain]
      [] module = 6 ->
           [list |-> Append(list, NewEngine("fm")), e |-> Len(list) + 1, g |-> FMMasterGain]
      [] OTHER ->
           [list |-> list, e |-> defaultEng, g |-> defaultGain]

Least(S) == CHOOSE x \in S : \A y \in S : x <= y

\* the loop of Play over usedMods: engineForModule, SetMasterGain(g), AddEngine
RECURSIVE addEngines(_, _, _, _)
addEngines(mods, list, registered, defaultGain) ==
    IF mods = {} THEN [list |-> list, engines |-> registered]
    ELSE LET mod == Least(mods)
             r == engineForModule(mod, list, 1, defaultGain)
         IN addEngines(mods \ {mod},
                       [r.list EXCEPT ![r.e] = SetMasterGain(@, r.g * VolumeUnit)],
                       registered @@ (mod :> r.e),
                       defaultGain)

\* MultiEngine.engine(module); module 0 is always registered here
engineOf(m, module) ==
    IF module \in DOMAIN m.engines THEN m.engines[module]
    ELSE IF m.defaultMod \in DOMAIN m.engines THEN m.engines[m.defaultMod]
    ELSE 0

encodeVoiceID(module, localID) == module * 2^16 + (localID % (LocalIDMask + 1))

decodeVoiceID(id) == [module |-> (id \div 2^16) % 2^8, localID |-> id % (LocalIDMask + 1)]

clamp(v, lo, hi) == IF v < lo THEN lo ELSE IF v > hi THEN hi ELSE v

\* Engine.RenderFrame: the voices' mix through the master gain, clamped
EngineRenderFrame(e, wave) == clamp(wave * Cardinality(e.voices) * e.masterGain, -One, One)

RECURSIVE MixFrames(_, _, _)
MixFrames(list, waves, n) ==
    IF n = 0 THEN 0
    ELSE MixFrames(list, waves, n - 1) + EngineRenderFrame(list[n], waves[n])

\* MultiEngine.RenderFrame, or the single engine's
RenderFrameOf(m, list, waves) ==
    IF m = Nil THEN EngineRenderFrame(list[1], waves[1])
    ELSE MixFrames(list, waves, Len(list))

\* Engine.NoteOn: the next id; when the polyphony is used up a voice is stolen
\* (the quietest one; the voices here have no level, so the oldest)
EngineNoteOn(e) ==
    [e EXCEPT !.nextID = @ + 1,
              !.voices = (IF Cardinality(@) >= Polyphony THEN @ \ {Least(@)} ELSE @)
                         \cup {e.nextID}]

EngineNoteOff(e, id) == [e EXCEPT !.voices = @ \ {id}]

\* the module MultiEngine.NoteOn takes from the program
noteOnModule(m, program) ==
    IF (program \div 2^8) % 2^8 = 0 THEN m.currentMod ELSE (program \div 2^8) % 2^8

\* NewPlayer(sampleRate, WithSynthMode(m)): the engine fields
WithSynthMode(m) ==
    /\ mode = m
    /\ engines = <<SetMasterGain(newEngineForMode(m), MasterGain(m) * VolumeUnit)>>
    /\ engine = 1
    /\ baseGain = MasterGain(m)
    /\ playerVolume = VolumeUnit
    /\ multi = Nil
    /\ playing = FALSE
    /\ held = {}
    /\ notes = 0
    /\ lastOff = [on |-> NoCall, engine |-> 0, local |-> -1]
    /\ frameOut = 0

\* the sets scoreUsedModules can return: module 0 and the modules the tracks select
UsedModules == {{0} \cup s : s \in {t \in SUBSET (Modules \ {0}) : Cardinality(t) <= MaxModules}}

\* Play: the engines of the new playback
PlayEngines(usedMods) ==
    /\ LET baseEngine == SetMasterGain(newEngineForMode(mode), MasterGain(mode) * playerVolume)
           built == addEngines(usedMods \ {0}, <<baseEngine>>, (0 :> 1), MasterGain(mode))
       IN /\ engine' = 1
          /\ baseGain' = MasterGain(mode)
          /\ IF Cardinality(usedMods) > 1
             THEN /\ engines' = built.list
                  /\ multi' = [engines |-> built.engines, defaultMod |-> 0, currentMod |-> 0]
             ELSE /\ engines' = <<baseEngine>>
                  /\ multi' = Nil
    /\ playing' = TRUE
    /\ held' = {}
    /\ notes' = 0
    /\ lastOff' = [on |-> NoCall, engine |-> 0, local |-> -1]
    /\ frameOut' = 0
    /\ UNCHANGED <<mode, playerVolume, nes>>
    /\ UNCHANGED seqVars
    /\ UNCHANGED playerVars

SetMasterVolume(v) ==
    /\ playerVolume' = (IF v < 0 THEN 0 ELSE v)
    /\ engines' = [engines EXCEPT ![engine] = SetMasterGain(@, baseGain * playerVolume')]
    /\ UNCHANGED <<mode, engine, baseGain, multi, playing, held, notes, lastOff, frameOut, nes>>
    /\ UNCHANGED seqVars
    /\ UNCHANGED playerVars

\* the modules the tracks of the playing score select
TrackModules == IF multi = Nil THEN {0} ELSE DOMAIN multi.engines

\* applyEvent of a Note on a track whose module is module: SetCurrentModule, then NoteOn
\* with program + (module << 8)
TrackNoteOn(module) ==
    /\ playing /\ notes < MaxNotes /\ module \in TrackModules
    /\ LET program == module * 2^8
           m == IF multi = Nil THEN Nil ELSE [multi EXCEPT !.currentMod = module]
           mod == IF multi = Nil THEN 0 ELSE noteOnModule(m, program)
           e == IF multi = Nil THEN 1 ELSE engineOf(m, mod)
           localID == engines[e].nextID
           id == IF multi = Nil THEN localID ELSE encodeVoiceID(mod, localID)
           on == [module |-> module, engine |-> e, local |-> localID, id |-> id]
       IN /\ multi' = m
          /\ engines' = [engines EXCEPT ![e] = EngineNoteOn(@)]
          /\ held' = held \cup {on}
    /\ notes' = notes + 1
    /\ UNCHANGED <<mode, engine, baseGain, playerVolume, playing, lastOff, frameOut, nes>>
    /\ UNCHANGED seqVars
    /\ UNCHANGED playerVars

\* the note-off of a voice the sequencer holds
TrackNoteOff ==
    /\ playing
    /\ \E h \in held :
          LET d == decodeVoiceID(h.id)
              e == IF multi = Nil THEN 1 ELSE engineOf(multi, d.module)
              localID == IF multi = Nil THEN h.id ELSE d.localID
          IN /\ engines' = [engines EXCEPT ![e] = EngineNoteOff(@, localID)]
             /\ lastOff' = [on |-> h, engine |-> e, local |-> localID]
             /\ held' = held \ {h}
    /\ UNCHANGED <<mode, engine, baseGain, playerVolume, multi, playing, notes, frameOut, nes>>
    /\ UNCHANGED seqVars
    /\ UNCHANGED playerVars

\* a stretch of LocalIDMask notes on the track of a module, each released before
\* the next one starts: the engine is left as it was but for its id counter; one
\* such stretch per playback is followed
TrackNoteRun(module) ==
    /\ playing /\ module \in TrackModules
    /\ LET e == IF multi = Nil THEN 1 ELSE engineOf(multi, module)
       IN /\ \A i \in 1..Len(engines) : engines[i].nextID < LocalIDMask
          /\ engines' = [engines EXCEPT ![e].nextID = @ + LocalIDMask]
    /\ multi' = (IF multi = Nil THEN Nil ELSE [multi EXCEPT !.currentMod = module])
    /\ UNCHANGED <<mode, engine, baseGain, playerVolume, playing, held, notes, lastOff, frameOut, nes>>
    /\ UNCHANGED seqVars
    /\ UNCHANGED playerVars

\* RenderFrame of the engine the sequencer holds; waves are the voices' waveform
\* values in each engine
RenderMix(waves) ==
    /\ playing
    /\ frameOut' = RenderFrameOf(multi, engines, waves)
    /\ UNCHANGED <<mode, engine, baseGain, playerVolume, engines, multi, playing, held, notes,
                   lastOff, nes>>
    /\ UNCHANGED seqVars
    /\ UNCHANGED playerVars

(***************************************************************************)
(* The NES-APU engine (internal/nesapu/engine.go): four hardware slots and *)
(* the activeByID map.  A slot's vol is in release steps.                  *)
(***************************************************************************)
Slots == {"pulse1", "pulse2", "triangle", "noise"}
EmptySlot == [active |-> FALSE, id |-> 0, vol |-> 0, released |-> FALSE]

\* nesapu.New
NesNew ==
    [slot |-> [k \in Slots |-> EmptySlot],
     activeByID |-> {},
     nextID |-> 0,
     assignCounter |-> 0,
     frameCounter |-> 0,
     framePeriod |-> (IF SampleRate \div NesFrameRate <= 0 THEN 1 ELSE SampleRate \div NesFrameRate)]

\* assignSlot for program 0, module 0, channel 0
assignSlot(note, counter) ==
    IF note >= NoiseCutoff THEN "noise"
    ELSE IF note < TriangleBelow THEN "triangle"
    ELSE IF counter % 2 = 0 THEN "pulse1"
    ELSE "pulse2"

\* the ids NoteOn deletes when it takes a slot: the old note's, when it is
\* active and not released
stolenIDs(old) == IF old.active /\ ~old.released THEN {old.id} ELSE {}

\* nesapu Engine.NoteOn
NesNoteOn(e, note, vol) ==
    LET id == e.nextID
        k == assignSlot(note, e.assignCounter)
    IN [e EXCEPT !.nextID = @ + 1,
                 !.activeByID = {r \in @ : r.id \notin stolenIDs(e.slot[k])}
                                \cup {[id |-> id, kind |-> k]},
                 !.slot[k] = [active |-> TRUE, id |-> id, vol |-> vol, released |-> FALSE],
                 !.assignCounter = @ + 1]

\* nesapu Engine.NoteOff
NesNoteOff(e, id) ==
    IF \E r \in e.activeByID : r.id = id
    THEN LET k == (CHOOSE r \in e.activeByID : r.id = id).kind
         IN IF e.slot[k].id = id THEN [e EXCEPT !.slot[k].released = TRUE] ELSE e
    ELSE e

\* clockFrame on one slot: a released note loses one release step and goes at 0
clockSlot(s) ==
    IF s.active /\ s.released
    THEN (IF s.vol - 1 <= 0 THEN EmptySlot ELSE [s EXCEPT !.vol = @ - 1])
    ELSE s

clockFrame(e) ==
    [e EXCEPT !.slot = [k \in Slots |-> clockSlot(e.slot[k])],
              !.activeByID = {r \in @ : ~\E k \in Slots :
                                  /\ e.slot[k].active /\ e.slot[k].released
                                  /\ e.slot[k].vol - 1 <= 0 /\ e.slot[k].id = r.id}]

\* nesapu Engine.RenderFrame: the frame counter and clockFrame
NesRenderFrame(e) ==
    IF e.frameCounter + 1 >= e.framePeriod
    THEN clockFrame([e EXCEPT !.frameCounter = 0])
    ELSE [e EXCEPT !.frameCounter = @ + 1]

NesNotes == {TriangleBelow - 1, TriangleBelow, NoiseCutoff}

ApuNoteOn(note, vol) ==
    /\ nes.nextID < MaxNesNotes
    /\ nes' = NesNoteOn(nes, note, vol)
    /\ UNCHANGED <<mode, engine, baseGain, playerVolume, engines, multi, playing, held, notes,
                   lastOff, frameOut>>
    /\ UNCHANGED seqVars
    /\ UNCHANGED playerVars

ApuNoteOff(id) ==
    /\ id < nes.nextID
    /\ nes' = NesNoteOff(nes, id)
    /\ UNCHANGED <<mode, engine, baseGain, playerVolume, engines, multi, playing, held, notes,
                   lastOff, frameOut>>
    /\ UNCHANGED seqVars
    /\ UNCHANGED playerVars

ApuRenderFrame ==
    /\ nes' = NesRenderFrame(nes)
    /\ UNCHANGED <<mode, engine, baseGain, playerVolume, engines, multi, playing, held, notes,
                   lastOff, frameOut>>
    /\ UNCHANGED seqVars
    /\ UNCHANGED playerVars

\* the engines of a Player made with the default options, and a fresh NES-APU engine
NewEngines ==
    /\ WithSynthMode("fm")
    /\ nes = NesNew

Init ==
    \E src \in TrackSources, opts \in ParserOptions, loop \in BOOLEAN,
       tailOpt \in {0, MaxTailOpt} :
        /\ preprocessor = preprocessInput(<<>>)
        /\ ParseInput(src)
        /\ NewWithOptions(Parse(src, opts), loop, tailOpt)
        /\ NewPlayer
        /\ NewEngines

\* some track loops by itself from its `$` marker
HasTrackLoop ==
    \E i \in 1..Len(score.tracks) :
        score.tracks[i].loopIndex >= 0 /\ score.tracks[i].endTick > score.tracks[i].loopTick

\* Process renders one more frame
Process ==
    /\ HasTrackLoop => tickInt <= MaxTick
    /\ passNo < MaxPasses
    /\ extraFrames < MaxExtraFrames
    /\ SetWorld(ProcessFrame(World))
    /\ UNCHANGED <<preprocessor, source, expanded, score, loopWholeScore,
                   initialTicksPerSamp, tailInit>>
    /\ UNCHANGED playerVars
    /\ UNCHANGED engineVars

Next == Process

Spec == Init /\ [][Next]_vars

(***************************************************************************)
(* Scores of one track written with the per-track controls: the sixteenth  *)
(* note, slur, pan, volume, program change and the event mask.             *)
(***************************************************************************)
ControlAlphabet ==
    {Tok("note", 4), Tok("&", 0), Tok("p", 6), Tok("v", 8), Tok("@", 5),
     Tok("@mask", 11), Tok("@mask", 0)}

ControlSources == {<<src>> : src \in UNION {[1..k -> ControlAlphabet] : k \in 1..MaxControlTokens}}

ControlInit ==
    \E src \in ControlSources, loop \in BOOLEAN :
        /\ preprocessor = preprocessInput(<<>>)
        /\ ParseInput(src)
        /\ NewWithOptions(Parse(src, [tempoMode |-> "", tempoUnit |-> TempoUnit, tempoFPS |-> 60]),
                          loop, 0)
        /\ NewPlayer
        /\ NewEngines

ControlSpec == ControlInit /\ [][Next]_vars

(***************************************************************************)
(* Scores of one track written with repeat loops: a loop, or a loop with   *)
(* one loop nested in its body, over segments of notes and tempo changes.  *)
(***************************************************************************)
LoopPlain == {Tok("note", 4), Tok("t", 30), Tok("t", 60)}

Segments == UNION {[1..k -> LoopPlain] : k \in 0..MaxBody}

\* the repeat counts written behind "]" (0: none written)
RepeatCounts == {0, MaxRepeat}

Bar == <<Tok("|", 0)>>

Bracket(body, n) == <<Tok("[", 0)>> \o body \o <<Tok("]", n)>>

Loops1 ==
    {Bracket(a, n) : a \in Segments, n \in RepeatCounts}
    \cup UNION {{Bracket(a \o Bar \o b, n) : a \in Segments, b \in Segments} : n \in RepeatCounts}

Loops2 ==
    UNION {UNION {{Bracket(a \o l \o b, n) : a \in Segments, b \in Segments} : l \in Loops1}
           : n \in RepeatCounts}

LoopSources == {<<src>> : src \in Loops1 \cup Loops2}

LoopInit ==
    \E src \in LoopSources :
        /\ preprocessor = preprocessInput(<<>>)
        /\ ParseInput(src)
        /\ NewWithOptions(Parse(src, [tempoMode |-> "", tempoUnit |-> TempoUnit, tempoFPS |-> 60]),
                          FALSE, 0)
        /\ NewPlayer
        /\ NewEngines

LoopSpec == LoopInit /\ [][Next]_vars

(***************************************************************************)
(* Preprocessing of sources with macros and octave reversal.               *)
(***************************************************************************)
ItemAlphabet ==
    {Text("<"), Text("A"), Text("B"),
     [k |-> "#REV"], [k |-> "#MACRO", mode |-> "dynamic"],
     [k |-> "#DEF", name |-> "A", value |-> <<Ch("<"), Ch("c")>>],
     [k |-> "#DEF", name |-> "B", value |-> <<Ch("A"), Ch(">")>>]}

\* the sources over the alphabet, and `#MACRO{dynamic}; #A=body; A` for bodies in
\* which A refers to itself once and twice
ItemSources ==
    UNION {[1..k -> ItemAlphabet] : k \in 1..MaxItems}
    \cup {<<[k |-> "#MACRO", mode |-> "dynamic"], [k |-> "#DEF", name |-> "A", value |-> body],
            Text("A")>> : body \in {<<Ch("A"), Ch("<")>>, <<Ch("A"), Ch("A")>>}}

PreprocessInit ==
    \E src \in ItemSources :
        /\ preprocessor = preprocessInput(src)
        /\ ParseInput(<<<<Tok("note", 2)>>>>)
        /\ NewWithOptions(Parse(<<<<Tok("note", 2)>>>>,
                                [tempoMode |-> "", tempoUnit |-> TempoUnit, tempoFPS |-> 60]),
                          FALSE, 0)
        /\ NewPlayer
        /\ NewEngines

\* preprocessStream: the next iteration of its loop
Preprocess ==
    /\ preprocessor.at <= Len(preprocessor.src)
    /\ preprocessor' = preprocessStep(preprocessor, preprocessor.src[preprocessor.at])
    /\ UNCHANGED sequencerVars
    /\ UNCHANGED playerVars
    /\ UNCHANGED engineVars

PreprocessSpec == PreprocessInit /\ [][Preprocess]_vars

(***************************************************************************)
(* The Player with its threads.  Every Play call is given the same score;  *)
(* its sequencer is seen through the events it raises.                     *)
(***************************************************************************)
PlayerInit ==
    /\ preprocessor = preprocessInput(<<>>)
    /\ ParseInput(<<<<Tok("note", 2)>>>>)
    /\ \E loop \in BOOLEAN :
          NewWithOptions(Parse(<<<<Tok("note", 2)>>>>, [tempoMode |-> "", tempoUnit |-> TempoUnit, tempoFPS |-> 60]), loop, 0)
    /\ NewPlayer
    /\ NewEngines

PlayerNext ==
    \/ PlayEnter
    \/ \E ok \in BOOLEAN : Play(ok)
    \/ Pause
    \/ Resume
    \/ StopEnter
    \/ StopSendEvent
    \/ StopSelect
    \/ WatchEnter
    \/ Watch
    \/ \E w \in WatchIds : Receive(w)
    \/ WaitCall
    \/ WaitReturn
    \/ \E k \in PlayIds : RtRead(k)
    \/ \E k \in PlayIds : RtProcess(k)
    \/ \E k \in PlayIds, kind \in {"LoopCompleted", "PlaybackEnded"} : RtOnEvent(k, kind)
    \/ \E k \in PlayIds : RtSendEvent(k)
    \/ \E k \in PlayIds : RtSelect(k)
    \/ \E k \in PlayIds : RtSignalDone(k)
    \/ \E k \in PlayIds : RtClose(k)

PlayerSpec == PlayerInit /\ [][PlayerNext]_vars

(***************************************************************************)
(* The engines of a playback: a Player of any synth mode plays scores that *)
(* select up to MaxModules modules, the volume is set, and the sequencer   *)
(* starts, ends and renders notes.                                         *)
(***************************************************************************)
EngineInit ==
    /\ preprocessor = preprocessInput(<<>>)
    /\ ParseInput(<<<<Tok("note", 2)>>>>)
    /\ NewWithOptions(Parse(<<<<Tok("note", 2)>>>>, [tempoMode |-> "", tempoUnit |-> TempoUnit, tempoFPS |-> 60]), FALSE, 0)
    /\ NewPlayer
    /\ \E m \in SynthModes : WithSynthMode(m)
    /\ nes = NesNew

EngineNext ==
    \/ \E usedMods \in UsedModules : PlayEngines(usedMods)
    \/ \E v \in Volumes : SetMasterVolume(v)
    \/ \E module \in Modules : TrackNoteOn(module)
    \/ TrackNoteOff
    \/ \E module \in Modules : TrackNoteRun(module)
    \/ \E waves \in [1..(MaxModules + 1) -> {-1, 1}] : RenderMix(waves)

EngineSpec == EngineInit /\ [][EngineNext]_vars

(***************************************************************************)
(* The NES-APU engine under any sequence of NoteOn, NoteOff and            *)
(* RenderFrame calls.                                                      *)
(***************************************************************************)
ApuInit ==
    /\ preprocessor = preprocessInput(<<>>)
    /\ ParseInput(<<<<Tok("note", 2)>>>>)
    /\ NewWithOptions(Parse(<<<<Tok("note", 2)>>>>, [tempoMode |-> "", tempoUnit |-> TempoUnit, tempoFPS |-> 60]), FALSE, 0)
    /\ NewPlayer
    /\ NewEngines

ApuNext ==
    \/ \E note \in NesNotes, vol \in 0..NesMaxVol : ApuNoteOn(note, vol)
    \/ \E id \in 0..(MaxNesNotes - 1) : ApuNoteOff(id)
    \/ ApuRenderFrame

ApuSpec == ApuInit /\ [][ApuNext]_vars

(***************************************************************************)
(* Observations on the engine calls.                                       *)
(***************************************************************************)
NoteOnArgs(c) == [note |-> c.note, velocity |-> c.velocity, pan |-> c.pan, program |-> c.program]

RECURSIVE MapArgs(_)
MapArgs(s) == IF s = <<>> THEN <<>> ELSE <<NoteOnArgs(Head(s))>> \o MapArgs(Tail(s))

\* the NoteOn arguments of whole-score pass k, in order
PassNoteOns(k) == MapArgs(SelectSeq(calls, LAMBDA c : c.op = "NoteOn" /\ c.pass = k))

IsPrefix(a, b) == Len(a) <= Len(b) /\ SubSeq(b, 1, Len(a)) = a

EndedCount == Len(SelectSeq(emitted, LAMBDA k : k = "PlaybackEnded"))
LoopCount == Len(SelectSeq(emitted, LAMBDA k : k = "LoopCompleted"))

(***************************************************************************)
(* C1: with whole-score looping disabled and no `$` loop in any track, the *)
(* sequencer emits PlaybackEnded exactly once, whatever tempo values the   *)
(* score's t commands set: it is never emitted twice, and as long as it    *)
(* has not been emitted every rendered frame advances the sequencer, which *)
(* is never left in a state that a further frame does not change.          *)
(***************************************************************************)
C1_PlaybackEndedExactlyOnce ==
    (~loopWholeScore /\ ~HasTrackLoop) =>
        /\ EndedCount <= 1
        /\ EndedCount = 0 => ProcessFrame(World) # World

(***************************************************************************)
(* C8: with whole-score looping enabled and no `$` loop, LoopCompleted is  *)
(* emitted once per pass, only when every track is exhausted, the note-off *)
(* queue is empty, no voice is active and the tail countdown has elapsed,  *)
(* and every pass issues the NoteOn arguments of the first pass.           *)
(***************************************************************************)
C8_WholeScoreLoopRepeats ==
    (loopWholeScore /\ ~HasTrackLoop) =>
        /\ EndedCount = 0
        /\ LoopCount = (IF pendingReset THEN passNo + 1 ELSE passNo)
        /\ pendingReset =>
              /\ scoreExhausted(World)
              /\ noteOffs = <<>>
              /\ ActiveVoiceCount(World) = 0
              /\ zeroFrames > tailInit
        /\ \A k \in 1..passNo :
              /\ IsPrefix(PassNoteOns(k), PassNoteOns(0))
              /\ k < passNo => PassNoteOns(k) = PassNoteOns(0)
        /\ (passNo > 0 /\ tickInt = 0) =>
              /\ ticksPerSamp = initialTicksPerSamp
              /\ tickFrac = 0
              /\ trackState = [i \in 1..Len(score.tracks) |-> newTrackCursor(score.tracks[i])]
              /\ trackRuntime = [i \in 1..Len(score.tracks) |-> newRuntimeState]

\* two passes were played, with notes issued under a runtime state the score changed
C8_Witness ==
    /\ loopWholeScore /\ ~HasTrackLoop
    /\ passNo = 2
    /\ LoopCount = 2
    /\ Len(PassNoteOns(1)) = 2
    /\ PassNoteOns(1)[1].note # PassNoteOns(1)[2].note

(***************************************************************************)
(* C9: in a track that loops from `$` (loop tick L, end tick E > L) the    *)
(* cursor rewinds to loop_index and increments loop_cycle at the end of    *)
(* the events, and an event of source tick T >= L is dispatched in cycle c *)
(* exactly at tick T + c * (E - L).                                        *)
(***************************************************************************)
TrackDispatches(i) == SelectSeq(dispatched, LAMBDA d : d.trk = i)

C9_LoopCycleTicks ==
    \A i \in 1..Len(score.tracks) :
        LET tr == score.tracks[i]
            ds == TrackDispatches(i)
        IN (tr.loopIndex >= 0 /\ tr.endTick > tr.loopTick) =>
              /\ \A n \in 1..Len(ds) :
                    /\ ds[n].evTick >= tr.loopTick =>
                          /\ ds[n].at = ds[n].evTick + ds[n].cycle * (tr.endTick - tr.loopTick)
                          /\ ds[n].effectiveTick = ds[n].at
                    /\ n < Len(ds) =>
                          IF ds[n].index = Len(tr.events) - 1
                          THEN ds[n + 1].index = tr.loopIndex /\ ds[n + 1].cycle = ds[n].cycle + 1
                          ELSE ds[n + 1].index = ds[n].index + 1 /\ ds[n + 1].cycle = ds[n].cycle
              /\ Len(ds) > 0 =>
                    /\ trackState[i].loopCycle =
                          (IF ds[Len(ds)].index = Len(tr.events) - 1
                           THEN ds[Len(ds)].cycle + 1 ELSE ds[Len(ds)].cycle)
                    /\ trackState[i].index =
                          (IF ds[Len(ds)].index = Len(tr.events) - 1
                           THEN tr.loopIndex ELSE ds[Len(ds)].index + 1)

\* a loop body that starts after tick 0 has been dispatched in its third cycle
C9_Witness ==
    \E i \in 1..Len(score.tracks) :
        /\ score.tracks[i].loopIndex >= 0
        /\ score.tracks[i].loopTick > 0
        /\ score.tracks[i].endTick > score.tracks[i].loopTick
        /\ \E n \in 1..Len(dispatched) :
              dispatched[n].trk = i /\ dispatched[n].cycle = 2 /\ dispatched[n].type = "note"

(***************************************************************************)
(* C10: note-offs fire before new notes of the same tick: within the       *)
(* dispatch of tick T no NoteOn of a Note event at T is issued before the  *)
(* NoteOff of an earlier voice whose queued note-off tick is <= T.         *)
(***************************************************************************)
C10_NoteOffBeforeNoteOn ==
    \A i, j \in 1..Len(calls) :
        ~(/\ i < j
          /\ calls[i].op = "NoteOn"
          /\ calls[j].op = "NoteOff"
          /\ calls[i].tick = calls[j].tick
          /\ calls[i].pass = calls[j].pass
          /\ calls[j].id < calls[i].id)

(***************************************************************************)
(* C2: with looping disabled, a Wait call made while playback k is active  *)
(* returns only when that playback has ended: it has returned only if the  *)
(* sequencer of k has raised PlaybackEnded or the audio of k was stopped.  *)
(***************************************************************************)
C2_WaitReturnsOnlyAtEnd ==
    (~loopWholeScore /\ waiter.pc = "returned" /\ waiter.play # 0) =>
        (finished[waiter.play] \/ backend[waiter.play] = "stopped")

(***************************************************************************)
(* C3: for each playback PlaybackEnded is offered to the Watch channel     *)
(* exactly once, whichever of the natural end and Stop occur and in        *)
(* whatever order: no playback has it passed to sendEvent a second time.   *)
(***************************************************************************)
C3_PlaybackEndedOfferedOnce == \A k \in PlayIds : offers[k] <= 1

(***************************************************************************)
(* C4: once Play has returned an error, every later step of Pause, Resume  *)
(* or Stop is a no-op: it changes no player state, stops or starts no      *)
(* audio and emits no event, also when an earlier playback was active.     *)
(***************************************************************************)
C4_NoOpAfterFailedPlay ==
    [][(playFailed /\ (Pause \/ Resume \/ StopEnter \/ StopSendEvent \/ StopSelect)) =>
          UNCHANGED <<audio, done, doneClosed, backend, chBuf, offers>>]_vars

(***************************************************************************)
(* C5: Wait returns immediately whenever no playback is active (before any *)
(* Play, after Stop, after the natural end, after a failed Play): a Wait   *)
(* call made while no playback is active is never left blocked.            *)
(***************************************************************************)
C5_WaitImmediateWhenInactive == waiter.pc = "blocked" => waiter.play # 0

C7_RealtimeNeverBlocks ==
    \A k \in PlayIds :
        /\ realtime[k].pc = "Process" => ~readerMu[k]
        /\ ~(realtime[k].pc = "signalDone" /\ mu = "ctl")
        /\ ~(realtime[k].pc = "sendEvent" /\ eventChMu = "ctl")

(***************************************************************************)
(* C11: state updates within a tick are visible to the notes of that tick: *)
(* for every tick T, every state-changing event with effective tick T, in  *)
(* every track (tempo included), is applied before the NoteOn of any Note  *)
(* event with effective tick T is issued.                                  *)
(***************************************************************************)
C11_UpdatesBeforeNotesOfTick ==
    \A i, j \in 1..Len(dispatched) :
        ~(/\ i < j
          /\ dispatched[i].type = "note"
          /\ dispatched[j].type \notin {"note", "rest"}
          /\ dispatched[i].effectiveTick = dispatched[j].effectiveTick
          /\ dispatched[i].pass = dispatched[j].pass)

(***************************************************************************)
(* C12: when a Note event with slur # none is dispatched on a track whose  *)
(* previous voice id is >= 0, NoteOff for that voice is issued at that     *)
(* tick, before the new NoteOn, and the voice's pending note-off entry is  *)
(* cancelled: no NoteOff for it is issued afterwards.                      *)
(***************************************************************************)
SlurredDispatch(d) == d.type = "note" /\ d.ev.slur # "none" /\ d.pre.rt.lastVoice >= 0

C12_SlurClosesPreviousVoice ==
    \A n \in 1..Len(dispatched) :
        LET d == dispatched[n]
            k == d.pre.nCalls
        IN SlurredDispatch(d) =>
              /\ Len(calls) >= k + 2
              /\ calls[k + 1].op = "NoteOff"
              /\ calls[k + 1].id = d.pre.rt.lastVoice
              /\ calls[k + 1].tick = d.at
              /\ calls[k + 2].op = "NoteOn"
              /\ calls[k + 2].tick = d.at
              /\ d.post.nCalls = k + 2
              /\ \A m \in (k + 2)..Len(calls) :
                    ~(calls[m].op = "NoteOff" /\ calls[m].id = d.pre.rt.lastVoice)
              /\ \A q \in 1..Len(noteOffs) :
                    noteOffs[q].voice = d.pre.rt.lastVoice => noteOffs[q].fired

\* a slurred note closed a voice whose own note-off was still queued, and the
\* tick of that queued note-off has been dispatched
C12_Witness ==
    \E n \in 1..Len(dispatched) :
        /\ SlurredDispatch(dispatched[n])
        /\ \E e \in dispatched[n].pre.queued :
              /\ e.voice = dispatched[n].pre.rt.lastVoice
              /\ tickInt > e.tick
              /\ passNo = dispatched[n].pass

(***************************************************************************)
(* C13: Tempo events inside loop bodies execute only on the first cycle: a *)
(* Tempo event inside a repeated body sets ticks_per_sample on the first   *)
(* pass through that body and leaves it unchanged on every later           *)
(* repetition of the body.                                                 *)
(***************************************************************************)
RepeatCount(n) == IF n = 0 THEN 2 ELSE n

\* src is one repeat loop without "|": every token of its expansion is one event
WholeLoop(src) ==
    /\ Len(src) >= 2
    /\ src[1].k = "["
    /\ \A i \in 1..Len(src) : src[i].k # "|"
    /\ parseLoopBody(src, 2, 1, <<>>, <<>>, FALSE).next = Len(src) + 1

\* the dispatch d is of an event of a second or later repetition of a body
LaterRepetition(d) ==
    \/ d.cycle > 0
    \/ /\ WholeLoop(source[d.trk])
       /\ d.index >= Len(expanded[d.trk]) \div RepeatCount(source[d.trk][Len(source[d.trk])].v)

C13_TempoOnlyOnFirstCycle ==
    \A n \in 1..Len(dispatched) :
        LET d == dispatched[n]
        IN d.type = "tempo" =>
              IF LaterRepetition(d)
              THEN d.post.ticksPerSamp = d.pre.ticksPerSamp
              ELSE d.post.ticksPerSamp = d.ev.value * score.resolution

(***************************************************************************)
(* C19: loop expansion: [BODY]n yields BODY n times (2 when n is not       *)
(* written), [PRE|POST]n yields PRE n-1 times and then POST once, and a    *)
(* loop nested inside another loop is expanded by the same rule before the *)
(* outer loop repeats it.                                                  *)
(***************************************************************************)
C19_LoopExpansion ==
    \A i \in 1..Len(source) :
        /\ \A a, b \in Segments : \A n \in RepeatCounts :
              /\ source[i] = Bracket(a, n) => expanded[i] = Repeat(a, RepeatCount(n))
              /\ source[i] = Bracket(a \o Bar \o b, n)
                    => expanded[i] = Repeat(a, RepeatCount(n) - 1) \o b
        /\ \A a, b, c, e \in Segments : \A n, m \in RepeatCounts :
              /\ source[i] = Bracket(c \o Bracket(a, n) \o e, m)
                    => expanded[i] = Repeat(c \o Repeat(a, RepeatCount(n)) \o e, RepeatCount(m))
              /\ source[i] = Bracket(c \o Bracket(a \o Bar \o b, n) \o e, m)
                    => expanded[i] = Repeat(c \o Repeat(a, RepeatCount(n) - 1) \o b \o e,
                                            RepeatCount(m))

(***************************************************************************)
(* Event masks.  The value a track's notes are started with is that of the *)
(* last event of the given type that was dispatched on the track, in the   *)
(* same pass, while its mask bit was clear (the initial value if none).    *)
(***************************************************************************)
UnmaskedBefore(n, type, bit) ==
    {j \in 1..(n - 1) : /\ dispatched[j].trk = dispatched[n].trk
                         /\ dispatched[j].pass = dispatched[n].pass
                         /\ dispatched[j].type = type
                         /\ ~BitSet(dispatched[j].pre.rt.mask, bit)}

LastUnmasked(n, type, bit, initial) ==
    IF UnmaskedBefore(n, type, bit) = {} THEN initial
    ELSE dispatched[CHOOSE j \in UnmaskedBefore(n, type, bit) :
                        \A k \in UnmaskedBefore(n, type, bit) : k <= j].ev.value

\* the NoteOn call made by the note dispatch n
NoteOnOf(n) == calls[dispatched[n].post.nCalls]

\* an event of the type was dispatched before n on the same track while its mask bit was set
MaskedBefore(n, type, bit) ==
    \E j \in 1..(n - 1) : /\ dispatched[j].trk = dispatched[n].trk
                           /\ dispatched[j].pass = dispatched[n].pass
                           /\ dispatched[j].type = type
                           /\ BitSet(dispatched[j].pre.rt.mask, bit)

(***************************************************************************)
(* C14: a pan event dispatched while mask bit 1 is set is discarded: it    *)
(* never changes the pan argument of a later NoteOn on that track, also    *)
(* not of a NoteOn issued after the mask bit is cleared again.             *)
(***************************************************************************)
C14_MaskedPanDiscarded ==
    \A n \in 1..Len(dispatched) :
        dispatched[n].type = "note" =>
            NoteOnOf(n).pan = clampInt(LastUnmasked(n, "pan", 2, newRuntimeState.pan), -64, 64)

(***************************************************************************)
(* C15: a volume event dispatched while mask bit 0 is set is discarded: it *)
(* does not change the velocity passed to any later NoteOn on that track.  *)
(***************************************************************************)
C15_MaskedVolumeDiscarded ==
    \A n \in 1..Len(dispatched) :
        dispatched[n].type = "note" =>
            NoteOnOf(n).velocity =
                applyAmpControls(newRuntimeState,
                    applyScaledVelocity(LastUnmasked(n, "volume", 1, newRuntimeState.volume),
                                        newRuntimeState.expression, newRuntimeState.fineVolume,
                                        newRuntimeState.vScaleMax))

(***************************************************************************)
(* C16: a program change dispatched while mask bit 3 is set is discarded:  *)
(* the track's current program and the program passed to later NoteOns     *)
(* stay what they were before the event.                                   *)
(***************************************************************************)
C16_MaskedProgramDiscarded ==
    \A n \in 1..Len(dispatched) :
        /\ dispatched[n].type = "program" /\ BitSet(dispatched[n].pre.rt.mask, 8)
              => dispatched[n].post.rt.program = dispatched[n].pre.rt.program
        /\ dispatched[n].type = "note"
              => NoteOnOf(n).program.low
                    = LastUnmasked(n, "program", 8, newRuntimeState.program)

(***************************************************************************)
(* C17: after Stop returns on an active playback, the event channel        *)
(* returned by Watch is closed (a consumer ranging over it terminates).    *)
(***************************************************************************)
C17_StopClosesEventChannel ==
    [][(ctl.pc = "select" /\ ctl'.pc = "idle" /\ eventCh' # 0)
          => chClosed'[eventCh'] > 0]_vars

(***************************************************************************)
(* C18: in every Track of a Score returned by Parse the event ticks are    *)
(* non-decreasing, end_tick is the tick cursor at the end of parsing (the  *)
(* sum of the lengths of the track's notes and rests, so no event tick is  *)
(* larger), and loop_tick <= end_tick when the track has a `$` marker.     *)
(***************************************************************************)
\* the tick cursor after the first n tokens of toks: the lengths of its notes and rests
RECURSIVE TickCursor(_, _)
TickCursor(toks, n) ==
    IF n = 0 THEN 0
    ELSE TickCursor(toks, n - 1)
         + (IF toks[n].k \in {"note", "r"} THEN parseLengthToken(toks[n].v, newState) ELSE 0)

C18_TrackTicksOrdered ==
    \A i \in 1..Len(score.tracks) :
        LET tr == score.tracks[i]
        IN /\ \A a, b \in 1..Len(tr.events) : a < b => tr.events[a].tick <= tr.events[b].tick
           /\ tr.endTick = TickCursor(expanded[i], Len(expanded[i]))
           /\ \A a \in 1..Len(tr.events) : tr.events[a].tick <= tr.endTick
           /\ (\E n \in 1..Len(expanded[i]) : expanded[i][n].k = "$")
                 => 0 <= tr.loopTick /\ tr.loopTick <= tr.endTick

\* a parsed track with a `$` marker between two events of different ticks
C18_Witness ==
    \E i \in 1..Len(score.tracks) :
        LET tr == score.tracks[i]
        IN /\ Len(tr.events) >= 2
           /\ tr.events[1].tick < tr.events[Len(tr.events)].tick
           /\ 0 < tr.loopTick /\ tr.loopTick < tr.endTick
           /\ tr.loopIndex >= 1

(***************************************************************************)
(* C20: while #REV{octave} is active, every `<` and `>` of the source      *)
(* appears swapped exactly once in the preprocessed stream, the markers    *)
(* that come from macro bodies and from nested macros included, in static  *)
(* and in dynamic macro mode.                                              *)
(***************************************************************************)
C20_MarkersSwappedOnce ==
    (preprocessor.src # <<>> /\ preprocessor.src[1].k = "#REV")
        => \A i \in 1..Len(preprocessor.out) :
               preprocessor.out[i].c \in {"<", ">"} => preprocessor.out[i].n = 1

(***************************************************************************)
(* C29: note-off queue: every queued entry that was not cancelled by a     *)
(* slur triggers exactly one NoteOff, at the first dispatched tick that is *)
(* >= the entry's tick; after every dispatchTick the queue contains no     *)
(* fired entry and is sorted by tick.                                      *)
(***************************************************************************)
\* the NoteOff calls made at a slur boundary
SlurCloseCalls ==
    {dispatched[n].pre.nCalls + 1 : n \in {k \in 1..Len(dispatched) : SlurredDispatch(dispatched[k])}}

\* the NoteOff calls for voice v made by the note-off loop
QueueNoteOffs(v) ==
    {m \in 1..Len(calls) : calls[m].op = "NoteOff" /\ calls[m].id = v /\ m \notin SlurCloseCalls}

\* the queue entry of voice v was cancelled while it was still queued
Cancelled(v) ==
    \E n \in 1..Len(dispatched) :
        /\ SlurredDispatch(dispatched[n])
        /\ dispatched[n].pre.rt.lastVoice = v
        /\ \E e \in dispatched[n].pre.queued : e.voice = v

\* the queue entries the note dispatch n appended
EntriesOf(n) == {e \in dispatched[n].post.queued : e.voice = NoteOnOf(n).id}

C29_NoteOffQueue ==
    /\ \A n \in 1..Len(dispatched) :
          dispatched[n].type = "note" =>
             /\ Cardinality(EntriesOf(n)) = 1
             /\ \A e \in EntriesOf(n) :
                   IF Cancelled(e.voice) THEN QueueNoteOffs(e.voice) = {}
                   ELSE /\ Cardinality(QueueNoteOffs(e.voice)) <= 1
                        /\ \A m \in QueueNoteOffs(e.voice) :
                              calls[m].tick = e.tick /\ calls[m].pass = dispatched[n].pass
                        /\ (passNo > dispatched[n].pass \/ tickInt > e.tick)
                              => QueueNoteOffs(e.voice) # {}
    /\ \A q \in 1..Len(noteOffs) : ~noteOffs[q].fired
    /\ \A q, r \in 1..Len(noteOffs) : q < r => noteOffs[q].tick <= noteOffs[r].tick

\* an entry has fired after its note's tick, and the queue holds an entry in front of
\* one that was appended before it
C29_Witness ==
    /\ \E n \in 1..Len(dispatched) :
          /\ dispatched[n].type = "note"
          /\ \E e \in EntriesOf(n) :
                /\ e.tick > dispatched[n].at
                /\ ~Cancelled(e.voice)
                /\ QueueNoteOffs(e.voice) # {}
    /\ \E q, r \in 1..Len(noteOffs) :
          q < r /\ noteOffs[q].tick < noteOffs[r].tick /\ noteOffs[q].voice > noteOffs[r].voice

(***************************************************************************)
(* C27: the sequencer does not treat the score as exhausted before the     *)
(* tick clock has reached the end_tick of every track: while a track still *)
(* has unplayed duration (a trailing rest, say) the tail countdown does    *)
(* not start, so neither LoopCompleted nor PlaybackEnded happens before    *)
(* max(end_tick) has been reached.                                         *)
(***************************************************************************)
RECURSIVE MaxEndTick(_)
MaxEndTick(n) ==
    IF n = 0 THEN 0
    ELSE IF score.tracks[n].endTick > MaxEndTick(n - 1) THEN score.tracks[n].endTick
    ELSE MaxEndTick(n - 1)

C27_NotExhaustedBeforeEndTick ==
    (commandExhausted \/ loopPending \/ pendingReset \/ playbackEndedFired)
        => tickFrac >= MaxEndTick(Len(score.tracks)) * TickDen

(***************************************************************************)
(* C24: playback isolation.  Once Play has replaced an earlier playback, a *)
(* PlaybackEnded raised by the earlier playback's sequencer, possibly      *)
(* still in flight on the realtime thread, never closes the new            *)
(* playback's completion signal: the done channel that the callback of     *)
(* playback k is about to close is never the one of another playback j    *)
(* that Play has started.                                                  *)
(***************************************************************************)
C24_PlaybackIsolation ==
    \A k \in PlayIds : \A j \in PlayIds \ {k} :
        (realtime[k].pc = "close" /\ backend[j] # "none") => realtime[k].done # j

(***************************************************************************)
(* C25: the completion signal is set exactly once.  Under every            *)
(* interleaving of Play, Stop and the realtime thread's PlaybackEnded      *)
(* callback, each done channel made by Play is closed at most once, and it *)
(* is closed when its playback ends, is stopped or is replaced: such a     *)
(* channel is no longer p.done, and a channel that is no longer p.done is  *)
(* closed or in the hands of the one caller that is about to close it.     *)
(***************************************************************************)
ClosersOf(c) ==
    {<<"rt", k>> : k \in {j \in PlayIds : realtime[j].pc = "close" /\ realtime[j].done = c}}
    \cup (IF ctl.pc \in {"sendEvent", "select"} /\ ctl.done = c THEN {<<"ctl", 0>>} ELSE {})

PlaybackOver(k) ==
    /\ backend[k] # "none"
    /\ \/ finished[k] /\ realtime[k].pc = "idle"
       \/ audio = 0
       \/ plays > k

C25_DoneClosedOnce ==
    \A c \in PlayIds :
        /\ doneClosed[c] + Cardinality(ClosersOf(c)) <= 1
        /\ (c <= plays /\ done # c) => doneClosed[c] + Cardinality(ClosersOf(c)) = 1
        /\ (c <= plays /\ PlaybackOver(c)) => done # c

\* playback 1 was replaced and its channel closed; Stop and the callback of
\* playback 2 both run their close step, and one of them holds channel 2
C25_Witness ==
    /\ plays = 2 /\ doneClosed[1] = 1
    /\ ctl.pc = "select" /\ realtime[2].pc = "close"
    /\ ClosersOf(2) # {}

(***************************************************************************)
(* C22: when a score uses more than one module, module numbers map to      *)
(* engines as 0 and 6 -> FM, 1 and 8 -> Chiptune, 2 -> NES-APU,            *)
(* 4 -> Wavetable, and a NoteOn on a track that selected module m is       *)
(* rendered by the engine mapped to m, whatever the Player's synth mode.   *)
(***************************************************************************)
ModuleEngine(m) ==
    CASE m \in {0, 6} -> "fm"
      [] m \in {1, 8} -> "chiptune"
      [] m = 2 -> "nesapu"
      [] m = 4 -> "wavetable"

C22_ModuleEngines ==
    multi # Nil => \A h \in held : engines[h.engine].kind = ModuleEngine(h.module)

(***************************************************************************)
(* C23: for every engine of the Voice Engine contract, MultiEngine         *)
(* included, every RenderFrame call returns samples of absolute value at   *)
(* most 1, after any sequence of NoteOn and NoteOff calls.                 *)
(***************************************************************************)
C23_FramesInRange == -One <= frameOut /\ frameOut <= One

(***************************************************************************)
(* C26: MultiEngine voice-id round trip.  For every NoteOn routed to       *)
(* module m whose sub-engine returned local id k, NoteOff of the id that   *)
(* MultiEngine.NoteOn returned reaches the same sub-engine with exactly    *)
(* local id k, for every k a sub-engine can return in a long playback.     *)
(***************************************************************************)
C26_VoiceIDRoundTrip ==
    (multi # Nil /\ lastOff.on # NoCall) =>
        /\ lastOff.engine = lastOff.on.engine
        /\ lastOff.local = lastOff.on.local

(***************************************************************************)
(* C28: while a playback is active, every engine that renders it, the      *)
(* sub-engines of a MultiEngine included, has master gain equal to its     *)
(* base gain times the Player's current volume, after any sequence of      *)
(* SetMasterVolume and Play calls.                                         *)
(***************************************************************************)
C28_MasterGainFollowsVolume ==
    playing => \A i \in 1..Len(engines) :
                  engines[i].masterGain = MasterGain(engines[i].kind) * playerVolume

(***************************************************************************)
(* C30: NES-APU engine.  After any sequence of NoteOn, NoteOff and         *)
(* RenderFrame calls, activeByID holds exactly the ids of the currently    *)
(* active slots, and therefore never more entries than there are slots.    *)
(***************************************************************************)
ActiveSlotIDs == {nes.slot[k].id : k \in {j \in Slots : nes.slot[j].active}}

C30_ActiveByIDIsActiveSlots ==
    /\ {r.id : r \in nes.activeByID} = ActiveSlotIDs
    /\ Cardinality(nes.activeByID) <= Cardinality(Slots)

(***************************************************************************)
(* C21: macro expansion depth is bounded by 32, so preprocessing           *)
(* terminates with bounded work for every set of macro definitions,        *)
(* macros that refer to themselves or to each other several times per body *)
(* in dynamic mode included: the depth bound bounds the work, so the       *)
(* expansion of one macro reference is at most MaxMacroDepth + 1 times as  *)
(* long as the longest macro body.                                         *)
(***************************************************************************)
BodyLens == {Len(preprocessor.macros[name].body) : name \in MacroNames}
LongestBody == CHOOSE n \in BodyLens : \A m \in BodyLens : m <= n

====
